---------------------------- MODULE Spec2Model ----------------------------
(***************************************************************************)
(* A model of the GitHub README generator (pffigueiredo/                   *)
(* github-readme-generator): the URL parser, the GitHub API request        *)
(* helper, the file-tree fetcher and reconstructor of                      *)
(* handlers/fetch_github_repo.ts (src/unnamed/part_003), and the           *)
(* generateReadme handler of handlers/generate_readme.ts with the record   *)
(* store it writes to.                                                     *)
(*                                                                         *)
(* Strings are sequences of one-character strings, so that split, join,    *)
(* the .git suffix, substring search and string comparison are computed    *)
(* character by character as the JavaScript runtime computes them.         *)
(***************************************************************************)
EXTENDS Integers, Sequences, FiniteSets, TLC

(***************************************************************************)
(* Bounds of the model.                                                    *)
(***************************************************************************)
\* Longest upstream tree listing that is enumerated.
MaxEntries == 4
\* Calls of a tree function, and of fetchGitHubRepository, in one run.
MaxCalls == 2
\* Concurrent generateReadme requests.
MaxRequests == 2
\* Rows inserted into the readmes table in one run of the store handlers.
MaxRecords == 5
\* Rows whose inserts fall on the same reading of the database clock.
MaxTied == 2
\* The ceiling of fetchGitHubFileTree.  The source sets MAX_FILES = 1000
\* (src/unnamed/part_003:194); the model scales it down so that listings
\* longer than the ceiling can be enumerated.  The code uses the ceiling only
\* in `length > MAX_FILES` and `MAX_FILES - important.length`.
MAX_FILES == 3

(***************************************************************************)
(* JavaScript strings.                                                     *)
(***************************************************************************)
Letters == <<"a", "b", "c", "d", "e", "f", "g", "h", "i", "j", "k", "l", "m",
             "n", "o", "p", "q", "r", "s", "t", "u", "v", "w", "x", "y", "z">>
Capitals == <<"A", "B", "C", "D", "E", "F", "G", "H", "I", "J", "K", "L", "M",
              "N", "O", "P", "Q", "R", "S", "T", "U", "V", "W", "X", "Y", "Z">>
\* The punctuation of file paths, in the order of the CLDR root collation,
\* which for these three characters is also the order of their code units.
Punctuation == <<"-", ".", "/">>
Digits == <<"0", "1", "2", "3", "4", "5", "6", "7", "8", "9">>

IndexOf(seq, c) == IF \E i \in 1..Len(seq) : seq[i] = c
                   THEN CHOOSE i \in 1..Len(seq) : seq[i] = c
                   ELSE 0

\* The other characters of the strings of the model (URLs, messages).
OtherCharacters == {":", "?", "#", " "}

Characters == {Letters[i] : i \in 1..Len(Letters)}
              \cup {Capitals[i] : i \in 1..Len(Capitals)}
              \cup {Punctuation[i] : i \in 1..Len(Punctuation)}
              \cup {Digits[i] : i \in 1..Len(Digits)}
              \cup OtherCharacters

\* String.prototype.toLowerCase, character by character.
toLowerCase == [c \in Characters |->
                   IF IndexOf(Capitals, c) > 0 THEN Letters[IndexOf(Capitals, c)]
                   ELSE c]

\* The primary collation weight: punctuation < digits < letters, a letter
\* and its capital have the same primary weight.
PrimaryWeight == [c \in Characters |->
                     IF IndexOf(Punctuation, c) > 0 THEN IndexOf(Punctuation, c)
                     ELSE IF IndexOf(Digits, c) > 0
                     THEN Len(Punctuation) + IndexOf(Digits, c)
                     ELSE Len(Punctuation) + Len(Digits)
                          + IndexOf(Letters, toLowerCase[c])]

\* The tertiary (case) weight: the small letter first.
TertiaryWeight == [c \in Characters |-> IF IndexOf(Capitals, c) > 0 THEN 1 ELSE 0]

\* Lexicographic comparison of two strings by a weight of their characters,
\* from position i on: -1, 0 or 1; a proper prefix is smaller.
RECURSIVE CompareFrom(_, _, _, _)
CompareFrom(a, b, weight, i) ==
    IF i > Len(a) THEN (IF i > Len(b) THEN 0 ELSE -1)
    ELSE IF i > Len(b) THEN 1
    ELSE IF weight[a[i]] < weight[b[i]] THEN -1
    ELSE IF weight[a[i]] > weight[b[i]] THEN 1
    ELSE CompareFrom(a, b, weight, i + 1)

\* String.prototype.localeCompare, as the runtime's collator (ICU, default
\* options) computes it: by primary weights first, the case of the letters
\* decides between strings that are equal up to case.
localeCompare(a, b) ==
    LET primary == CompareFrom(a, b, PrimaryWeight, 1)
    IN  IF primary # 0 THEN primary ELSE CompareFrom(a, b, TertiaryWeight, 1)

\* String.prototype.split(sep) for a one-character separator: the pieces
\* between the separators, empty pieces included; never an empty array.
\* splitFrom(s, sep, i, piece): piece is the piece begun before position i.
RECURSIVE splitFrom(_, _, _, _)
splitFrom(s, sep, i, piece) ==
    IF i > Len(s) THEN <<piece>>
    ELSE IF s[i] = sep THEN <<piece>> \o splitFrom(s, sep, i + 1, <<>>)
    ELSE splitFrom(s, sep, i + 1, Append(piece, s[i]))

split(s, sep) == splitFrom(s, sep, 1, <<>>)

\* Array.prototype.join(sep) of an array of strings.
RECURSIVE join(_, _)
join(parts, sep) ==
    IF Len(parts) = 0 THEN <<>>
    ELSE IF Len(parts) = 1 THEN parts[1]
    ELSE parts[1] \o <<sep>> \o join(Tail(parts), sep)

\* Array.prototype.slice(start, end) for start >= 0: a negative end counts
\* from the end of the array.
slice(arr, start, end) ==
    LET e == IF end < 0
             THEN (IF Len(arr) + end < 0 THEN 0 ELSE Len(arr) + end)
             ELSE (IF end > Len(arr) THEN Len(arr) ELSE end)
    IN  SubSeq(arr, start + 1, e)

\* Array.prototype.filter(Boolean) on an array of strings: drops the empty ones.
filterBoolean(parts) == SelectSeq(parts, LAMBDA p : Len(p) > 0)

\* Array.prototype.sort(compareFn): a stable sort (ECMAScript 2019), in the
\* order of a comparator that is a consistent total preorder.  compared[i][j]
\* is compareFn(arr[i], arr[j]); before[i] is the number of elements that
\* come before element i in the sorted array.
sort(arr, compared) ==
    LET before == [i \in 1..Len(arr) |->
                     Cardinality({j \in 1..Len(arr) :
                         compared[j][i] < 0 \/ (compared[j][i] = 0 /\ j < i)})]
    IN  [k \in 1..Len(arr) |->
            arr[CHOOSE i \in 1..Len(arr) : before[i] = k - 1]]

(***************************************************************************)
(* File names.                                                             *)
(***************************************************************************)
README_md == <<"R", "E", "A", "D", "M", "E", ".", "m", "d">>
README_rst == <<"R", "E", "A", "D", "M", "E", ".", "r", "s", "t">>
README_txt == <<"R", "E", "A", "D", "M", "E", ".", "t", "x", "t">>
package_json == <<"p", "a", "c", "k", "a", "g", "e", ".", "j", "s", "o", "n">>
requirements_txt == <<"r", "e", "q", "u", "i", "r", "e", "m", "e", "n", "t", "s", ".", "t", "x", "t">>
Cargo_toml == <<"C", "a", "r", "g", "o", ".", "t", "o", "m", "l">>
Dockerfile == <<"D", "o", "c", "k", "e", "r", "f", "i", "l", "e">>
docker_compose_yml == <<"d", "o", "c", "k", "e", "r", "-", "c", "o", "m", "p", "o", "s", "e", ".", "y", "m", "l">>
gitignore == <<".", "g", "i", "t", "i", "g", "n", "o", "r", "e">>
LICENSE == <<"L", "I", "C", "E", "N", "S", "E">>
CONTRIBUTING_md == <<"C", "O", "N", "T", "R", "I", "B", "U", "T", "I", "N", "G", ".", "m", "d">>
src == <<"s", "r", "c">>
index_ts == <<"i", "n", "d", "e", "x", ".", "t", "s">>
src_index_ts == <<"s", "r", "c", "/", "i", "n", "d", "e", "x", ".", "t", "s">>
src_utils == <<"s", "r", "c", "/", "u", "t", "i", "l", "s">>
src_utils_helper_ts == <<"s", "r", "c", "/", "u", "t", "i", "l", "s", "/", "h", "e", "l", "p", "e", "r", ".", "t", "s">>

(***************************************************************************)
(* Tree reconstruction: buildFileTree of handlers/fetch_github_repo.ts.    *)
(* The nodes the loop creates are objects the directory map and the        *)
(* children arrays refer to; they are modelled as a heap, a sequence of    *)
(* nodes whose children are heap indexes.  A file node has no children     *)
(* field (children: undefined).                                            *)
(***************************************************************************)
\* A variant of compareTreeItems: the kinds are not compared.
compareTreeItemsByPathOnly(a, b) == localeCompare(a.path, b.path)

\* A variant of compareTreeItems: no two items are told apart, so that the
\* (stable) sort leaves the listing in its order.
compareTreeItemsAsEqual(a, b) == 0

\* The comparator of buildFileTree: trees before blobs, then by path.
compareTreeItems(a, b) ==
    IF a.type = "tree" /\ b.type = "blob" THEN -1
    ELSE IF a.type = "blob" /\ b.type = "tree" THEN 1
    ELSE localeCompare(a.path, b.path)

\* A variant of newNode: every node is given a children array.
newNodeWithChildren(item, fileName) ==
    [name |-> fileName, type |-> IF item.type = "tree" THEN "directory" ELSE "file",
     path |-> item.path, children |-> <<>>]

\* The node created for an item of the listing.
newNode(item, fileName) ==
    IF item.type = "tree"
    THEN [name |-> fileName, type |-> "directory", path |-> item.path,
          children |-> <<>>]
    ELSE [name |-> fileName, type |-> "file", path |-> item.path]

\* A variant of buildStep: an item whose parent is not in the directory map
\* is attached to the root.
buildStepOrphanToRoot(st, item) ==
    LET pathParts == split(item.path, "/")
        fileName == pathParts[Len(pathParts)]
        parentPath == join(SubSeq(pathParts, 1, Len(pathParts) - 1), "/")
        idx == Len(st.heap) + 1
        registered == IF item.type = "tree"
                      THEN [p \in DOMAIN st.directoryMap \cup {item.path} |->
                               IF p = item.path THEN idx ELSE st.directoryMap[p]]
                      ELSE st.directoryMap
    IN  IF Len(pathParts) = 1 \/ parentPath \notin DOMAIN st.directoryMap
        THEN [heap |-> Append(st.heap, newNode(item, fileName)),
              root |-> Append(st.root, idx),
              directoryMap |-> registered]
        ELSE LET parent == st.directoryMap[parentPath]
             IN  [heap |-> Append([st.heap EXCEPT ![parent].children = Append(@, idx)],
                                  newNode(item, fileName)),
                  root |-> st.root,
                  directoryMap |-> registered]

\* A variant of buildStep: a nested directory is not entered in the
\* directory map.
buildStepNestedUnregistered(st, item) ==
    LET pathParts == split(item.path, "/")
        fileName == pathParts[Len(pathParts)]
        parentPath == join(SubSeq(pathParts, 1, Len(pathParts) - 1), "/")
        idx == Len(st.heap) + 1
    IN  IF Len(pathParts) = 1
        THEN [heap |-> Append(st.heap, newNode(item, fileName)),
              root |-> Append(st.root, idx),
              directoryMap |->
                  IF item.type = "tree"
                  THEN [p \in DOMAIN st.directoryMap \cup {item.path} |->
                           IF p = item.path THEN idx ELSE st.directoryMap[p]]
                  ELSE st.directoryMap]
        ELSE IF parentPath \in DOMAIN st.directoryMap
        THEN LET parent == st.directoryMap[parentPath]
             IN  [heap |-> Append([st.heap EXCEPT ![parent].children = Append(@, idx)],
                                  newNode(item, fileName)),
                  root |-> st.root,
                  directoryMap |-> st.directoryMap]
        ELSE st

\* One iteration of the loop of buildFileTree over the sorted items.
buildStep(st, item) ==
    LET pathParts == split(item.path, "/")
        fileName == pathParts[Len(pathParts)]
        parentPath == join(SubSeq(pathParts, 1, Len(pathParts) - 1), "/")
        idx == Len(st.heap) + 1
        registered == IF item.type = "tree"
                      THEN [p \in DOMAIN st.directoryMap \cup {item.path} |->
                               IF p = item.path THEN idx ELSE st.directoryMap[p]]
                      ELSE st.directoryMap
    IN  IF Len(pathParts) = 1
        THEN [heap |-> Append(st.heap, newNode(item, fileName)),
              root |-> Append(st.root, idx),
              directoryMap |-> registered]
        ELSE IF /\ parentPath \in DOMAIN st.directoryMap
                /\ "children" \in DOMAIN st.heap[st.directoryMap[parentPath]]
        THEN LET parent == st.directoryMap[parentPath]
             IN  [heap |-> Append([st.heap EXCEPT ![parent].children = Append(@, idx)],
                                  newNode(item, fileName)),
                  root |-> st.root,
                  directoryMap |-> registered]
        ELSE st

RECURSIVE buildLoop(_, _)
buildLoop(st, items) ==
    IF Len(items) = 0 THEN st
    ELSE buildLoop(buildStep(st, Head(items)), Tail(items))

\* The nested tree a heap index stands for (what the caller sees, and what
\* JSON.stringify serializes).
RECURSIVE nested(_, _)
nested(heap, i) ==
    IF "children" \in DOMAIN heap[i]
    THEN [heap[i] EXCEPT !.children = [k \in 1..Len(@) |-> nested(heap, @[k])]]
    ELSE heap[i]

nestedAll(heap, idxs) == [k \in 1..Len(idxs) |-> nested(heap, idxs[k])]

\* buildFileTree(treeItems): the array is sorted in place, then walked.
\* sortedItems is the array as the call leaves it, root the tree returned.
buildFileTree(treeItems) ==
    LET sortedItems == sort(treeItems,
                            [i \in 1..Len(treeItems) |-> [j \in 1..Len(treeItems) |->
                                compareTreeItems(treeItems[i], treeItems[j])]])
        st == buildLoop([heap |-> <<>>, root |-> <<>>, directoryMap |-> <<>>],
                        sortedItems)
    IN  [sortedItems |-> sortedItems, root |-> nestedAll(st.heap, st.root)]

(***************************************************************************)
(* The reduction of fetchGitHubFileTree for listings above the ceiling.    *)
(***************************************************************************)
importantPaths == {README_md, README_rst, README_txt,
                   package_json, requirements_txt, Cargo_toml,
                   Dockerfile, docker_compose_yml,
                   gitignore, LICENSE, CONTRIBUTING_md}

isImportant(item) == \/ item.path \in importantPaths
                     \/ Len(split(item.path, "/")) <= 2

\* A variant of filterTree: the important entries are cut to the ceiling too.
filterTreeCutImportant(tree) ==
    IF Len(tree) > MAX_FILES
    THEN slice(SelectSeq(tree, isImportant)
                 \o SelectSeq(tree, LAMBDA item : ~isImportant(item)),
               0, MAX_FILES)
    ELSE tree

\* filteredTree: the listing itself up to the ceiling, else the important
\* entries followed by the first of the others.
filterTree(tree) ==
    IF Len(tree) > MAX_FILES
    THEN LET important == SelectSeq(tree, isImportant)
             remaining == slice(SelectSeq(tree, LAMBDA item : ~isImportant(item)),
                                0, MAX_FILES - Len(important))
         IN  important \o remaining
    ELSE tree

(***************************************************************************)
(* Upstream responses and makeGitHubApiRequest.                            *)
(*                                                                         *)
(* What fetch delivers is either a rejection (no response obtained) or a   *)
(* response with a status and a body; response.json() rejects on a body    *)
(* that is not JSON and else yields a JSON value.                          *)
(***************************************************************************)
rate_limit == <<"r", "a", "t", "e", " ", "l", "i", "m", "i", "t">>
API_rate_limit_exceeded == <<"A", "P", "I", " ">> \o rate_limit
                             \o <<" ", "e", "x", "c", "e", "e", "d", "e", "d">>
Rate_Limit == <<"R", "a", "t", "e", " ", "L", "i", "m", "i", "t">>
Forbidden == <<"F", "o", "r", "b", "i", "d", "d", "e", "n">>

\* String.prototype.includes
includes(s, sub) ==
    \E i \in 0..(Len(s) - Len(sub)) : SubSeq(s, i + 1, i + Len(sub)) = sub

\* response.ok
ok(response) == response.status >= 200 /\ response.status <= 299

Thrown(error) == [thrown |-> TRUE, error |-> error]
Returned(value) == [thrown |-> FALSE, value |-> value]

\* errorData.message?.includes('rate limit') of the 403 branch, where
\* errorData is the body, or {} when response.json() rejects.
rateLimitCheck(response) ==
    IF response.json.rejects THEN Returned(FALSE)
    ELSE LET errorData == response.json.value
         IN  IF errorData.t = "null" THEN Thrown([message |-> "TypeError"])
             ELSE IF "message" \notin DOMAIN errorData THEN Returned(FALSE)
             ELSE IF errorData.message.t = "string"
                  THEN Returned(includes(errorData.message.s, rate_limit))
             ELSE Thrown([message |-> "TypeError"])

\* makeGitHubApiRequest(url), given what fetch delivers for the request.
makeGitHubApiRequest(delivered) ==
    IF "rejects" \in DOMAIN delivered
    THEN \* fetch rejected: an Error is rethrown as it is
         IF delivered.rejects = "Error"
         THEN Thrown([message |-> "fetch failed"])
         ELSE Thrown([message |-> "Failed to fetch data from GitHub API"])
    ELSE IF ~ok(delivered)
    THEN IF delivered.status = 404
         THEN Thrown([message |-> "Repository not found or is private"])
         ELSE IF delivered.status = 403
         THEN LET check == rateLimitCheck(delivered)
              IN  IF check.thrown THEN check
                  ELSE IF check.value
                  THEN Thrown([message |-> "GitHub API rate limit exceeded"])
                  ELSE Thrown([message |-> "Access forbidden - repository may be private"])
         ELSE IF delivered.status = 401
         THEN Thrown([message |-> "Invalid GitHub token"])
         ELSE Thrown([message |-> "GitHub API error", status |-> delivered.status])
    ELSE IF delivered.json.rejects THEN Thrown([message |-> "SyntaxError"])
    ELSE Returned(delivered.json.value)

\* The statuses upstream answers with.
Statuses == {200, 201, 301, 401, 403, 404, 500}

Unreadable == [rejects |-> TRUE]
Body(value) == [rejects |-> FALSE, value |-> value]

\* The bodies of a failure response.
ErrorBodies ==
    {Unreadable, Body([t |-> "null"]), Body([t |-> "object"])}
    \cup {Body([t |-> "object", message |-> [t |-> "string", s |-> s]]) :
            s \in {API_rate_limit_exceeded, Rate_Limit, Forbidden}}
    \cup {Body([t |-> "object", message |-> [t |-> "number"]])}

\* What fetch can deliver when upstream fails or cannot be reached.
FailureDeliveries ==
    {[rejects |-> r] : r \in {"Error", "other"}}
    \cup {[status |-> s, json |-> b] : s \in Statuses \ {200, 201}, b \in ErrorBodies}

(***************************************************************************)
(* Upstream tree listings.                                                 *)
(***************************************************************************)
Blob(path) == [path |-> path, type |-> "blob"]
Tree(path) == [path |-> path, type |-> "tree"]

\* The entries listings are made of.  A listing names a path once, as a git
\* tree does.
Entries == {Blob(README_md), Blob(package_json), Tree(src), Blob(src),
            Blob(src_index_ts), Tree(src_utils), Blob(src_utils_helper_ts)}

Listings ==
    {l \in UNION {[1..n -> Entries] : n \in 0..MaxEntries} :
        \A i, j \in 1..Len(l) : i # j => l[i].path # l[j].path}

\* What fetch can deliver for the recursive-tree request.
TreeDeliveries ==
    FailureDeliveries
    \cup {[status |-> 200, json |-> Unreadable],
          [status |-> 200, json |-> Body([t |-> "null"])]}
    \cup {[status |-> 200,
           json |-> Body([t |-> "object", tree |-> l, truncated |-> FALSE])] :
            l \in Listings}
    \cup {[status |-> 200,
           json |-> Body([t |-> "object", tree |-> l, truncated |-> TRUE])] :
            l \in {m \in Listings : Len(m) <= 1}}

(***************************************************************************)
(* fetchGitHubFileTree of handlers/fetch_github_repo.ts.                   *)
(***************************************************************************)
api_repos == <<"h", "t", "t", "p", "s", ":", "/", "/", "a", "p", "i", ".", "g", "i", "t", "h", "u", "b", ".", "c", "o", "m", "/", "r", "e", "p", "o", "s", "/">>
git_trees == <<"/", "g", "i", "t", "/", "t", "r", "e", "e", "s", "/">>
recursive_1 == <<"?", "r", "e", "c", "u", "r", "s", "i", "v", "e", "=", "1">>
main == <<"m", "a", "i", "n">>

\* The URL of the recursive-tree request.
treeApiUrl(owner, repo, branch) ==
    api_repos \o owner \o <<"/">> \o repo \o git_trees \o branch \o recursive_1

\* A variant of fetchGitHubFileTree: the loop of buildFileTree consumes the
\* array it walks (shift), so the response's array is left empty.
fetchGitHubFileTreeConsuming(owner, repo, branch, delivered) ==
    LET api == makeGitHubApiRequest(delivered)
    IN  IF api.thrown
        THEN [request |-> treeApiUrl(owner, repo, branch),
              result |-> api, delivered |-> delivered, warned |-> FALSE]
        ELSE IF api.value.t = "null"
        THEN [request |-> treeApiUrl(owner, repo, branch),
              result |-> Thrown([message |-> "TypeError"]),
              delivered |-> delivered, warned |-> FALSE]
        ELSE LET treeData == api.value
                 filteredTree == filterTree(treeData.tree)
                 built == buildFileTree(filteredTree)
             IN  [request |-> treeApiUrl(owner, repo, branch),
                  filteredTree |-> filteredTree,
                  result |-> Returned(built.root),
                  delivered |-> IF Len(treeData.tree) > MAX_FILES
                                THEN delivered
                                ELSE [delivered EXCEPT !.json.value.tree = <<>>],
                  warned |-> treeData.truncated]

\* fetchGitHubFileTree(owner, repo, branch), given what fetch delivers:
\* the request made, the array handed to buildFileTree (filteredTree), the
\* result, the delivered object as the call leaves it (buildFileTree sorts
\* the array it is given in place, and up to the ceiling that array is the
\* response's own), and whether the truncation warning was logged.
fetchGitHubFileTree(owner, repo, branch, delivered) ==
    LET api == makeGitHubApiRequest(delivered)
    IN  IF api.thrown
        THEN [request |-> treeApiUrl(owner, repo, branch),
              result |-> api, delivered |-> delivered, warned |-> FALSE]
        ELSE IF api.value.t = "null"
        THEN \* treeData.tree of null
             [request |-> treeApiUrl(owner, repo, branch),
              result |-> Thrown([message |-> "TypeError"]),
              delivered |-> delivered, warned |-> FALSE]
        ELSE LET treeData == api.value
                 filteredTree == filterTree(treeData.tree)
                 built == buildFileTree(filteredTree)
             IN  [request |-> treeApiUrl(owner, repo, branch),
                  filteredTree |-> filteredTree,
                  result |-> Returned(built.root),
                  delivered |-> IF Len(treeData.tree) > MAX_FILES
                                THEN delivered
                                ELSE [delivered EXCEPT
                                        !.json.value.tree = built.sortedItems],
                  warned |-> treeData.truncated]

(***************************************************************************)
(* URLs.  URL(s) is `new URL(s)` for the URLs of the model: a scheme, "://",*)
(* a host, and an optional path, query and fragment.  The host is          *)
(* lower-cased, the path of a URL without one is "/", and a string without *)
(* a scheme is not a URL (the constructor throws a TypeError).             *)
(***************************************************************************)
\* The position of the first character of s at or after i that is in set cs;
\* Len(s) + 1 when there is none.
RECURSIVE firstOf(_, _, _)
firstOf(s, cs, i) ==
    IF i > Len(s) THEN Len(s) + 1
    ELSE IF s[i] \in cs THEN i
    ELSE firstOf(s, cs, i + 1)

isLetters(s) == \A i \in 1..Len(s) : toLowerCase[s[i]] \in {Letters[k] : k \in 1..Len(Letters)}

URL(s) ==
    LET colon == firstOf(s, {":"}, 1)
        scheme == SubSeq(s, 1, colon - 1)
        hostStart == colon + 3
        hostEnd == firstOf(s, {"/", "?", "#"}, hostStart)
        pathEnd == firstOf(s, {"?", "#"}, hostEnd)
        host == SubSeq(s, hostStart, hostEnd - 1)
        path == SubSeq(s, hostEnd, pathEnd - 1)
    IN  IF \/ colon > Len(s)
           \/ Len(scheme) = 0
           \/ ~isLetters(scheme)
           \/ SubSeq(s, colon + 1, colon + 2) # <<"/", "/">>
           \/ Len(host) = 0
           \/ \E i \in 1..Len(host) : host[i] = " "
        THEN Thrown([message |-> "TypeError: Invalid URL"])
        ELSE Returned([hostname |-> [i \in 1..Len(host) |-> toLowerCase[host[i]]],
                       pathname |-> IF Len(path) = 0 THEN <<"/">> ELSE path])

github_com == <<"g", "i", "t", "h", "u", "b", ".", "c", "o", "m">>
dot_git == <<".", "g", "i", "t">>

\* String.prototype.replace(/\.git$/, ''): a .git at the end is removed, once.
replaceDotGit(s) ==
    IF Len(s) >= Len(dot_git) /\ SubSeq(s, Len(s) - Len(dot_git) + 1, Len(s)) = dot_git
    THEN SubSeq(s, 1, Len(s) - Len(dot_git))
    ELSE s

\* A variant of parseGitHubUrl: the host is not checked and the .git suffix
\* is kept.
parseGitHubUrlUnchecked(url) ==
    LET parsed == URL(url)
    IN  IF parsed.thrown
        THEN Thrown([message |-> "Failed to parse GitHub URL", cause |-> parsed.error.message])
        ELSE LET pathParts == filterBoolean(split(parsed.value.pathname, "/"))
             IN  IF Len(pathParts) < 2
                 THEN Thrown([message |-> "Failed to parse GitHub URL",
                              cause |-> "Invalid GitHub URL format"])
                 ELSE Returned([owner |-> pathParts[1], repo |-> pathParts[2]])

\* parseGitHubUrl of handlers/fetch_github_repo.ts: every failure is rethrown
\* as 'Failed to parse GitHub URL: <cause>'.
parseGitHubUrl(url) ==
    LET parsed == URL(url)
    IN  IF parsed.thrown
        THEN Thrown([message |-> "Failed to parse GitHub URL", cause |-> parsed.error.message])
        ELSE IF parsed.value.hostname # github_com
        THEN Thrown([message |-> "Failed to parse GitHub URL",
                     cause |-> "URL must be from github.com"])
        ELSE LET pathParts == filterBoolean(split(parsed.value.pathname, "/"))
             IN  IF Len(pathParts) < 2
                 THEN Thrown([message |-> "Failed to parse GitHub URL",
                              cause |-> "Invalid GitHub URL format"])
                 ELSE Returned([owner |-> pathParts[1],
                                repo |-> replaceDotGit(pathParts[2])])

(***************************************************************************)
(* fetchGitHubRepository of handlers/fetch_github_repo.ts.                 *)
(***************************************************************************)
Null == [t |-> "null"]
Str(s) == [t |-> "string", s |-> s]

\* The URL of the repository-info request.
repoApiUrl(owner, repo) == api_repos \o owner \o <<"/">> \o repo

\* The RepositoryInfo made of the upstream repository object.
repositoryInfo(data) ==
    [name |-> data.name, full_name |-> data.full_name,
     description |-> data.description, html_url |-> data.html_url,
     default_branch |-> data.default_branch,
     created_at |-> data.created_at, updated_at |-> data.updated_at,
     language |-> data.language,
     stars_count |-> data.stargazers_count, forks_count |-> data.forks_count]

\* fetchGitHubRepository(githubUrl), given what fetch delivers: the requests
\* made (none when the URL does not parse) and the result.
fetchGitHubRepository(url, delivered) ==
    LET parsed == parseGitHubUrl(url)
    IN  IF parsed.thrown THEN [requests |-> <<>>, result |-> parsed]
        ELSE LET apiUrl == repoApiUrl(parsed.value.owner, parsed.value.repo)
                 api == makeGitHubApiRequest(delivered)
             IN  IF api.thrown THEN [requests |-> <<apiUrl>>, result |-> api]
                 ELSE IF api.value.t = "null"
                 THEN [requests |-> <<apiUrl>>,
                       result |-> Thrown([message |-> "TypeError"])]
                 ELSE [requests |-> <<apiUrl>>,
                       result |-> Returned(repositoryInfo(api.value))]

\* The URLs given to the parser.
url_o_r == <<"h", "t", "t", "p", "s", ":", "/", "/", "g", "i", "t", "h", "u", "b", ".", "c", "o", "m", "/", "o", "/", "r">>
url_o_r_git == <<"h", "t", "t", "p", "s", ":", "/", "/", "g", "i", "t", "h", "u", "b", ".", "c", "o", "m", "/", "o", "/", "r", ".", "g", "i", "t">>
url_o_r_git_slash == <<"h", "t", "t", "p", "s", ":", "/", "/", "g", "i", "t", "h", "u", "b", ".", "c", "o", "m", "/", "o", "/", "r", ".", "g", "i", "t", "/">>
url_o_r_github == <<"h", "t", "t", "p", "s", ":", "/", "/", "g", "i", "t", "h", "u", "b", ".", "c", "o", "m", "/", "o", "/", "r", ".", "g", "i", "t", "h", "u", "b">>
url_o_r_git_git == <<"h", "t", "t", "p", "s", ":", "/", "/", "g", "i", "t", "h", "u", "b", ".", "c", "o", "m", "/", "o", "/", "r", ".", "g", "i", "t", ".", "g", "i", "t">>
url_o_dot_git == <<"h", "t", "t", "p", "s", ":", "/", "/", "g", "i", "t", "h", "u", "b", ".", "c", "o", "m", "/", "o", "/", ".", "g", "i", "t">>
url_o_r_tree_main == <<"h", "t", "t", "p", "s", ":", "/", "/", "g", "i", "t", "h", "u", "b", ".", "c", "o", "m", "/", "o", "/", "r", "/", "t", "r", "e", "e", "/", "m", "a", "i", "n">>
url_o__r == <<"h", "t", "t", "p", "s", ":", "/", "/", "g", "i", "t", "h", "u", "b", ".", "c", "o", "m", "/", "o", "/", "/", "r">>
url_o_r_query == <<"h", "t", "t", "p", "s", ":", "/", "/", "g", "i", "t", "h", "u", "b", ".", "c", "o", "m", "/", "o", "/", "r", "?", "t", "a", "b", "a", "/", "b">>
url_capital_host == <<"h", "t", "t", "p", "s", ":", "/", "/", "G", "i", "t", "H", "u", "b", ".", "c", "o", "m", "/", "o", "/", "r">>
url_http == <<"h", "t", "t", "p", ":", "/", "/", "g", "i", "t", "h", "u", "b", ".", "c", "o", "m", "/", "o", "/", "r">>
url_o == <<"h", "t", "t", "p", "s", ":", "/", "/", "g", "i", "t", "h", "u", "b", ".", "c", "o", "m", "/", "o">>
url_o_query == <<"h", "t", "t", "p", "s", ":", "/", "/", "g", "i", "t", "h", "u", "b", ".", "c", "o", "m", "/", "o", "?", "x", "/", "y">>
url_root == <<"h", "t", "t", "p", "s", ":", "/", "/", "g", "i", "t", "h", "u", "b", ".", "c", "o", "m", "/">>
url_no_path == <<"h", "t", "t", "p", "s", ":", "/", "/", "g", "i", "t", "h", "u", "b", ".", "c", "o", "m">>
url_other_host == <<"h", "t", "t", "p", "s", ":", "/", "/", "e", "x", "a", "m", "p", "l", "e", ".", "c", "o", "m", "/", "o", "/", "r">>
url_www_host == <<"h", "t", "t", "p", "s", ":", "/", "/", "w", "w", "w", ".", "g", "i", "t", "h", "u", "b", ".", "c", "o", "m", "/", "o", "/", "r">>
url_no_scheme == <<"g", "i", "t", "h", "u", "b", ".", "c", "o", "m", "/", "o", "/", "r">>
url_words == <<"n", "o", "t", " ", "a", " ", "u", "r", "l">>

Urls == {url_o_r,
         url_o_r_git,
         url_o_r_git_slash,
         url_o_r_github,
         url_o_r_git_git,
         url_o_dot_git,
         url_o_r_tree_main,
         url_o__r,
         url_o_r_query,
         url_capital_host,
         url_http,
         url_o,
         url_o_query,
         url_root,
         url_no_path,
         url_other_host,
         url_www_host,
         url_no_scheme,
         url_words}

\* The repository objects upstream answers with.
dev == <<"d", "e", "v">>
typescript == <<"T", "y", "p", "e", "S", "c", "r", "i", "p", "t">>
a_test_repository == <<"A", " ", "t", "e", "s", "t", " ", "r", "e", "p", "o", "s", "i", "t", "o", "r", "y">>
date_created == <<"c", "r", "e", "a", "t", "e", "d">>
date_updated == <<"u", "p", "d", "a", "t", "e", "d">>

RepoObjects ==
    {[t |-> "object", name |-> <<"r">>, full_name |-> <<"o", "/", "r">>,
      description |-> d, html_url |-> url_o_r, default_branch |-> b,
      created_at |-> date_created, updated_at |-> date_updated,
      language |-> l, stargazers_count |-> 42, forks_count |-> 5] :
        d \in {Null, Str(a_test_repository)}, b \in {main, dev},
        l \in {Null, Str(typescript)}}

\* What fetch can deliver for the repository-info request.
RepoDeliveries ==
    FailureDeliveries
    \cup {[status |-> 200, json |-> Unreadable],
          [status |-> 200, json |-> Body(Null)]}
    \cup {[status |-> s, json |-> Body(o)] : s \in {200, 201}, o \in RepoObjects}

\* A variant of the handler's parseGitHubUrl: a trailing .git is taken off
\* the second segment.
parseGitHubUrlHStripping(url) ==
    LET parsed == URL(url)
    IN  IF parsed.thrown THEN parsed
        ELSE LET pathParts == filterBoolean(split(parsed.value.pathname, "/"))
             IN  IF Len(pathParts) < 2
                 THEN Thrown([message |-> "Invalid GitHub URL format"])
                 ELSE Returned([owner |-> pathParts[1],
                                repo |-> replaceDotGit(pathParts[2])])

(***************************************************************************)
(* handlers/generate_readme.ts: the helpers of the generateReadme handler. *)
(* The handler has its own URL parser, its own two fetch helpers and its   *)
(* own tree reconstruction and rendering; it does not call the functions   *)
(* of handlers/fetch_github_repo.ts.                                       *)
(***************************************************************************)
\* parseGitHubUrl of generate_readme.ts: no host check, no .git removal, and
\* the TypeError of `new URL` is not wrapped.
parseGitHubUrlH(url) ==
    LET parsed == URL(url)
    IN  IF parsed.thrown THEN parsed
        ELSE LET pathParts == filterBoolean(split(parsed.value.pathname, "/"))
             IN  IF Len(pathParts) < 2
                 THEN Thrown([message |-> "Invalid GitHub URL format"])
                 ELSE Returned([owner |-> pathParts[1], repo |-> pathParts[2]])

\* A variant of fetchRepositoryInfo: a 403 is told apart as well.
fetchRepositoryInfoForbidding(delivered) ==
    IF "rejects" \in DOMAIN delivered
    THEN Thrown([message |-> "fetch failed"])
    ELSE IF ~ok(delivered)
    THEN IF delivered.status = 404
         THEN Thrown([message |-> "Repository not found"])
         ELSE IF delivered.status = 403
         THEN Thrown([message |-> "Access forbidden"])
         ELSE Thrown([message |-> "GitHub API error", status |-> delivered.status])
    ELSE IF delivered.json.rejects THEN Thrown([message |-> "SyntaxError"])
    ELSE IF delivered.json.value.t = "null" THEN Thrown([message |-> "TypeError"])
    ELSE Returned(repositoryInfo(delivered.json.value))

\* fetchRepositoryInfo(owner, repo) from the point where fetch settles.
fetchRepositoryInfo(delivered) ==
    IF "rejects" \in DOMAIN delivered
    THEN Thrown([message |-> "fetch failed"])
    ELSE IF ~ok(delivered)
    THEN IF delivered.status = 404
         THEN Thrown([message |-> "Repository not found"])
         ELSE Thrown([message |-> "GitHub API error", status |-> delivered.status])
    ELSE IF delivered.json.rejects THEN Thrown([message |-> "SyntaxError"])
    ELSE IF delivered.json.value.t = "null" THEN Thrown([message |-> "TypeError"])
    ELSE Returned(repositoryInfo(delivered.json.value))

\* A variant of comparePaths: tree items before blob items, then by path.
comparePathsKindFirst(a, b) ==
    IF a.type = "tree" /\ b.type = "blob" THEN -1
    ELSE IF a.type = "blob" /\ b.type = "tree" THEN 1
    ELSE localeCompare(a.path, b.path)

comparePaths(a, b) == localeCompare(a.path, b.path)

\* The node fetchFileTree creates for an item: the name is the last segment,
\* or the whole path when the last segment is empty.
fileTreeNode(item) ==
    LET pathParts == split(item.path, "/")
        last == pathParts[Len(pathParts)]
        name == IF Len(last) = 0 THEN item.path ELSE last
    IN  IF item.type = "tree"
        THEN [name |-> name, type |-> "directory", path |-> item.path,
              children |-> <<>>]
        ELSE [name |-> name, type |-> "file", path |-> item.path]

\* One iteration of the loop of fetchFileTree: every node is entered in
\* fileMap; a nested node is pushed to its parent's children when the parent
\* is in fileMap and has a children array.
fileTreeStep(st, item) ==
    LET pathParts == split(item.path, "/")
        parentPath == join(SubSeq(pathParts, 1, Len(pathParts) - 1), "/")
        idx == Len(st.heap) + 1
        fileMap == [p \in DOMAIN st.fileMap \cup {item.path} |->
                       IF p = item.path THEN idx ELSE st.fileMap[p]]
    IN  IF Len(pathParts) = 1
        THEN [heap |-> Append(st.heap, fileTreeNode(item)),
              rootFiles |-> Append(st.rootFiles, idx),
              fileMap |-> fileMap]
        ELSE IF /\ parentPath \in DOMAIN fileMap
                /\ "children" \in DOMAIN Append(st.heap, fileTreeNode(item))[fileMap[parentPath]]
        THEN [heap |-> [Append(st.heap, fileTreeNode(item)) EXCEPT
                          ![fileMap[parentPath]].children = Append(@, idx)],
              rootFiles |-> st.rootFiles,
              fileMap |-> fileMap]
        ELSE [heap |-> Append(st.heap, fileTreeNode(item)),
              rootFiles |-> st.rootFiles,
              fileMap |-> fileMap]

RECURSIVE fileTreeLoop(_, _)
fileTreeLoop(st, items) ==
    IF Len(items) = 0 THEN st
    ELSE fileTreeLoop(fileTreeStep(st, Head(items)), Tail(items))

\* fetchFileTree(owner, repo, defaultBranch) from the point where fetch
\* settles: the listing is sorted by path, in place, then walked.  The
\* result, and the delivered object as the call leaves it.
fetchFileTree(delivered) ==
    IF "rejects" \in DOMAIN delivered
    THEN [result |-> Thrown([message |-> "fetch failed"]), delivered |-> delivered]
    ELSE IF ~ok(delivered)
    THEN [result |-> Thrown([message |-> "Failed to fetch file tree",
                             status |-> delivered.status]),
          delivered |-> delivered]
    ELSE IF delivered.json.rejects
    THEN [result |-> Thrown([message |-> "SyntaxError"]), delivered |-> delivered]
    ELSE IF delivered.json.value.t = "null"
    THEN [result |-> Thrown([message |-> "TypeError"]), delivered |-> delivered]
    ELSE LET tree == delivered.json.value.tree
             sorted == sort(tree, [i \in 1..Len(tree) |-> [j \in 1..Len(tree) |->
                                      comparePaths(tree[i], tree[j])]])
             st == fileTreeLoop([heap |-> <<>>, rootFiles |-> <<>>, fileMap |-> <<>>],
                                sorted)
         IN  [result |-> Returned(nestedAll(st.heap, st.rootFiles)),
              delivered |-> [delivered EXCEPT !.json.value.tree = sorted]]

\* renderFileTree(nodes, prefix): one line per node, depth first.  A line is
\* its prefix (a sequence of "|   " and "    "), its connector and the name;
\* the box-drawing characters of the source are written in ASCII
\* (+-- is the connector of a last sibling).
RECURSIVE renderFileTree(_, _)
renderFileTree(nodes, prefix) ==
    LET line(index) ==
            LET node == nodes[index]
                isLast == index = Len(nodes)
                own == <<[prefix |-> prefix,
                          connector |-> IF isLast THEN "+-- " ELSE "|-- ",
                          name |-> node.name]>>
            IN  IF "children" \in DOMAIN node /\ Len(node.children) > 0
                THEN own \o renderFileTree(node.children,
                                Append(prefix, IF isLast THEN "    " ELSE "|   "))
                ELSE own
        lines[index \in 0..Len(nodes)] ==
            IF index = 0 THEN <<>> ELSE lines[index - 1] \o line(index)
    IN  lines[Len(nodes)]

\* A value that is falsy in a condition or an || : null and the empty string.
falsy(v) == v.t = "null" \/ (v.t = "string" /\ Len(v.s) = 0)

Not_specified == <<"N", "o", "t", " ", "s", "p", "e", "c", "i", "f", "i", "e", "d">>

\* generateMarkdownContent(repoInfo, fileTree): the lines pushed, in order.
generateMarkdownContent(repoInfo, fileTree) ==
    <<[line |-> "# ", name |-> repoInfo.name]>>
    \o (IF falsy(repoInfo.description) THEN <<>>
        ELSE <<[line |-> "description", text |-> repoInfo.description.s]>>)
    \o <<[line |-> "## Repository Information"],
         [line |-> "- **Language**: ",
          text |-> IF falsy(repoInfo.language) THEN Not_specified
                   ELSE repoInfo.language.s],
         [line |-> "- **Stars**: ", count |-> repoInfo.stars_count],
         [line |-> "- **Forks**: ", count |-> repoInfo.forks_count],
         [line |-> "- **Created**: ", localeDate |-> repoInfo.created_at],
         [line |-> "- **Last Updated**: ", localeDate |-> repoInfo.updated_at],
         [line |-> "- **Default Branch**: ", text |-> repoInfo.default_branch],
         [line |-> "## File Structure"],
         [line |-> "code fence"]>>
    \o renderFileTree(fileTree, <<>>)
    \o <<[line |-> "code fence"],
         [line |-> "## Links"],
         [line |-> "- [View on GitHub]", url |-> repoInfo.html_url]>>

\* JSON.stringify of the tree: the text that JSON.parse turns back into it.
JSONstringify(value) == [json |-> value]

\* The values with the file structure of no tree (variant).
insertValuesWithoutTree(github_url, repoInfo, markdownContent, fileTree) ==
    [github_url |-> github_url,
     repository_name |-> repoInfo.name,
     repository_description |-> repoInfo.description,
     markdown_content |-> markdownContent,
     file_structure |-> JSONstringify(<<>>)]

\* The values generateReadme inserts.
insertValues(github_url, repoInfo, markdownContent, fileTree) ==
    [github_url |-> github_url,
     repository_name |-> repoInfo.name,
     repository_description |-> repoInfo.description,
     markdown_content |-> markdownContent,
     file_structure |-> JSONstringify(fileTree)]

\* The row the table makes of inserted values: the serial id and the
\* defaultNow() timestamps.
insertedRow(values, id, time) ==
    [id |-> id, github_url |-> values.github_url,
     repository_name |-> values.repository_name,
     repository_description |-> values.repository_description,
     markdown_content |-> values.markdown_content,
     file_structure |-> values.file_structure,
     created_at |-> time, updated_at |-> time]

\* What generateReadme returns of the saved row.
generateReadmeResponse(savedReadme) ==
    [id |-> savedReadme.id, github_url |-> savedReadme.github_url,
     repository_name |-> savedReadme.repository_name,
     repository_description |-> savedReadme.repository_description,
     markdown_content |-> savedReadme.markdown_content,
     created_at |-> savedReadme.created_at]

\* What the handler is run against: the URLs submitted and what fetch
\* delivers to its two requests.  The handler reads no body of a failure.
HandlerUrls == {url_o_r_git, url_o, url_words}

HandlerStatuses == {401, 403, 404, 500}

HandlerFailures ==
    {[rejects |-> "Error"]}
    \cup {[status |-> s, json |-> Unreadable] : s \in HandlerStatuses}
    \cup {[status |-> 403,
           json |-> Body([t |-> "object",
                          message |-> [t |-> "string", s |-> API_rate_limit_exceeded]])]}

HandlerRepoObjects ==
    {o \in RepoObjects :
        \/ o.description = Null /\ o.default_branch = dev /\ o.language = Null
        \/ o.description # Null /\ o.default_branch = main /\ o.language # Null}

HandlerRepoDeliveries ==
    HandlerFailures \cup {[status |-> 200, json |-> Body(o)] : o \in HandlerRepoObjects}

\* The listing of the handler's tests (mockTreeResponse), and the empty one.
mockTree == <<Blob(README_md), Tree(src), Blob(src_index_ts), Tree(src_utils),
              Blob(src_utils_helper_ts), Blob(package_json), Blob(gitignore)>>

\* The listing of the handler's test of a deeper structure.
components == <<"c", "o", "m", "p", "o", "n", "e", "n", "t", "s">>
Button_tsx == <<"B", "u", "t", "t", "o", "n", ".", "t", "s", "x">>
Input_tsx == <<"I", "n", "p", "u", "t", ".", "t", "s", "x">>
helpers_ts == <<"h", "e", "l", "p", "e", "r", "s", ".", "t", "s">>
tests == <<"t", "e", "s", "t", "s">>
unit == <<"u", "n", "i", "t">>
utils == <<"u", "t", "i", "l", "s">>
Button_test_tsx == <<"B", "u", "t", "t", "o", "n", ".", "t", "e", "s", "t", ".", "t", "s", "x">>

complexTreeResponse ==
    <<Blob(README_md),
      Tree(src),
      Tree(src \o <<"/">> \o components),
      Blob(src \o <<"/">> \o components \o <<"/">> \o Button_tsx),
      Blob(src \o <<"/">> \o components \o <<"/">> \o Input_tsx),
      Tree(src_utils),
      Blob(src_utils \o <<"/">> \o helpers_ts),
      Blob(src_index_ts),
      Tree(tests),
      Tree(tests \o <<"/">> \o unit),
      Blob(tests \o <<"/">> \o unit \o <<"/">> \o Button_test_tsx)>>

HandlerTreeDeliveries ==
    HandlerFailures
    \cup {[status |-> 200, json |-> Body([t |-> "object", tree |-> l])] :
            l \in {<<>>, mockTree, complexTreeResponse}}

\* fetchFileTree's result for each thing fetch can deliver to it.
fetchFileTreeResults == [d \in HandlerTreeDeliveries |-> fetchFileTree(d).result]

(***************************************************************************)
(* The state.                                                              *)
(***************************************************************************)
VARIABLES
    githubUrl,   \* the URL given to fetchGitHubRepository
    upstream,    \* what fetch delivers to the calls of fetchGitHubRepository
                 \* and fetchGitHubFileTree (one object, as a test's mock)
    fetched,     \* the upstream requests made so far
    outcome,     \* the calls made so far: what each was given and its result
    warnings,    \* the truncation warnings logged
    req,         \* each generateReadme request: where it is and what it holds
    store,       \* the rows of the readmes table
    nextId,      \* the next value of the table's serial id
    now,         \* the database clock
    dbLog        \* the statements the database has executed, in order

vars == <<githubUrl, upstream, fetched, outcome, warnings,
          req, store, nextId, now, dbLog>>

handlerVars == <<req, store, nextId, now, dbLog>>

Requests == 1..MaxRequests

InitHandler ==
    /\ req = [r \in Requests |-> [pc |-> "idle"]]
    /\ store = {}
    /\ nextId = 1
    /\ now = 0
    /\ dbLog = <<>>

(***************************************************************************)
(* SpecTree: calls of fetchGitHubFileTree, or of the handler's             *)
(* fetchFileTree, against one upstream answer.                             *)
(***************************************************************************)
InitTree ==
    /\ githubUrl = <<>>
    /\ upstream \in TreeDeliveries
    /\ fetched = <<>>
    /\ outcome = <<>>
    /\ warnings = 0
    /\ InitHandler

FetchGitHubFileTree ==
    /\ Len(outcome) < MaxCalls
    /\ \A k \in 1..Len(outcome) : outcome[k].call = "fetchGitHubFileTree"
    /\ \E call \in {fetchGitHubFileTree(<<"o">>, <<"r">>, main, upstream)} :
           /\ fetched' = Append(fetched, call.request)
           /\ outcome' = Append(outcome,
                  IF call.result.thrown
                  THEN [call |-> "fetchGitHubFileTree", given |-> upstream,
                        result |-> call.result]
                  ELSE [call |-> "fetchGitHubFileTree", given |-> upstream,
                        filteredTree |-> call.filteredTree,
                        result |-> call.result])
           /\ upstream' = call.delivered
           /\ warnings' = warnings + (IF call.warned THEN 1 ELSE 0)
    /\ UNCHANGED <<githubUrl, handlerVars>>

\* The handler's own reconstruction, run against an upstream answer.  A
\* response object is delivered to one of the two functions only.
FetchFileTree ==
    /\ Len(outcome) < MaxCalls
    /\ \A k \in 1..Len(outcome) : outcome[k].call = "fetchFileTree"
    /\ \E call \in {fetchFileTree(upstream)} :
           /\ fetched' = Append(fetched, treeApiUrl(<<"o">>, <<"r">>, main))
           /\ outcome' = Append(outcome,
                  IF call.result.thrown
                  THEN [call |-> "fetchFileTree", given |-> upstream,
                        result |-> call.result]
                  ELSE [call |-> "fetchFileTree", given |-> upstream,
                        filteredTree |-> upstream.json.value.tree,
                        result |-> call.result])
           /\ upstream' = call.delivered
    /\ UNCHANGED <<githubUrl, warnings, handlerVars>>

NextTree == FetchGitHubFileTree \/ FetchFileTree

SpecTree == InitTree /\ [][NextTree]_vars

(***************************************************************************)
(* SpecFilter: one call of fetchGitHubFileTree against a listing, in every  *)
(* order of its entries: up to and above the ceiling, with up to two       *)
(* entries of more than two segments.                                      *)
(***************************************************************************)
\* Listings above the ceiling have at most this many entries.
MaxListed == 6

src_utils_index_ts == src_utils \o <<"/">> \o index_ts

FilterEntries == {Blob(README_md), Tree(src), Blob(src_index_ts), Tree(src_utils),
                  Blob(src_utils_helper_ts), Blob(src_utils_index_ts)}

FilterListings ==
    {l \in UNION {[1..n -> FilterEntries] : n \in 0..MaxListed} :
        \A i, j \in 1..Len(l) : i # j => l[i].path # l[j].path}

InitFilter ==
    /\ githubUrl = <<>>
    /\ upstream \in {[status |-> 200,
                       json |-> Body([t |-> "object", tree |-> l,
                                      truncated |-> FALSE])] : l \in FilterListings}
    /\ fetched = <<>>
    /\ outcome = <<>>
    /\ warnings = 0
    /\ InitHandler

NextFilter == Len(outcome) = 0 /\ FetchGitHubFileTree

SpecFilter == InitFilter /\ [][NextFilter]_vars

(***************************************************************************)
(* SpecRepo: calls of fetchGitHubRepository with one URL against one       *)
(* upstream answer.                                                        *)
(***************************************************************************)
InitRepo ==
    /\ githubUrl \in Urls
    /\ upstream \in RepoDeliveries
    /\ fetched = <<>>
    /\ outcome = <<>>
    /\ warnings = 0
    /\ InitHandler

FetchGitHubRepository ==
    /\ Len(outcome) < MaxCalls
    /\ \E call \in {fetchGitHubRepository(githubUrl, upstream)} :
           /\ fetched' = fetched \o call.requests
           /\ outcome' = Append(outcome, [given |-> upstream, result |-> call.result])
    /\ UNCHANGED <<githubUrl, upstream, warnings, handlerVars>>

NextRepo == FetchGitHubRepository

SpecRepo == InitRepo /\ [][NextRepo]_vars

(***************************************************************************)
(* Spec: generateReadme requests running concurrently against the store.   *)
(* A request advances when one of its awaits settles: the repository       *)
(* fetch, the tree fetch, the insert.                                      *)
(***************************************************************************)
Init ==
    /\ githubUrl = <<>>
    /\ upstream = <<>>
    /\ fetched = <<>>
    /\ outcome = <<>>
    /\ warnings = 0
    /\ InitHandler

\* A variant of failed: the request that failed was sent once more before
\* the call gave up.
failedAfterRetry(r, stage, error) ==
    [req EXCEPT ![r] = [pc |-> "failed", input |-> req[r].input,
                        fetched |-> Append(req[r].fetched,
                                           req[r].fetched[Len(req[r].fetched)]),
                        stage |-> stage, error |-> error]]

failed(r, stage, error) ==
    [req EXCEPT ![r] = [pc |-> "failed", input |-> req[r].input,
                        fetched |-> req[r].fetched,
                        stage |-> stage, error |-> error]]

\* generateReadme is called: the URL is parsed and the repository fetch is
\* issued.  req[r].fetched is the upstream requests the call has made.
GenerateReadme(r) ==
    /\ req[r].pc = "idle"
    /\ \E url \in HandlerUrls :
         \E parsed \in {parseGitHubUrlH(url)} :
           IF parsed.thrown
           THEN req' = [req EXCEPT ![r] = [pc |-> "failed", input |-> url,
                                           fetched |-> <<>>,
                                           stage |-> "parse",
                                           error |-> parsed.error]]
           ELSE req' = [req EXCEPT ![r] =
                          [pc |-> "awaitRepo", input |-> url,
                           owner |-> parsed.value.owner,
                           repo |-> parsed.value.repo,
                           fetched |-> <<repoApiUrl(parsed.value.owner,
                                                    parsed.value.repo)>>]]
    /\ UNCHANGED <<githubUrl, upstream, fetched, outcome, warnings,
                   store, nextId, now, dbLog>>

\* A variant of RepoResponse: the tree fetch is issued for the branch main.
RepoResponseForMain(r) ==
    /\ req[r].pc = "awaitRepo"
    /\ \E delivered \in HandlerRepoDeliveries :
         \E repoInfo \in {fetchRepositoryInfo(delivered)} :
           IF repoInfo.thrown
           THEN req' = failed(r, "repo", repoInfo.error)
           ELSE req' = [req EXCEPT ![r] =
                          [pc |-> "awaitTree", input |-> req[r].input,
                           repoInfo |-> repoInfo.value,
                           fetched |-> Append(req[r].fetched,
                               treeApiUrl(req[r].owner, req[r].repo, main))]]
    /\ UNCHANGED <<githubUrl, upstream, fetched, outcome, warnings,
                   store, nextId, now, dbLog>>

\* The repository fetch settles: on success the tree fetch is issued for the
\* default branch of the answer.
RepoResponse(r) ==
    /\ req[r].pc = "awaitRepo"
    /\ \E delivered \in HandlerRepoDeliveries :
         \E repoInfo \in {fetchRepositoryInfo(delivered)} :
           IF repoInfo.thrown
           THEN req' = failed(r, "repo", repoInfo.error)
           ELSE req' = [req EXCEPT ![r] =
                          [pc |-> "awaitTree", input |-> req[r].input,
                           repoInfo |-> repoInfo.value,
                           fetched |-> Append(req[r].fetched,
                               treeApiUrl(req[r].owner, req[r].repo,
                                          repoInfo.value.default_branch))]]
    /\ UNCHANGED <<githubUrl, upstream, fetched, outcome, warnings,
                   store, nextId, now, dbLog>>

\* A variant of TreeResponse: the record is saved, without its file
\* structure, before the tree fetch settles, so a failure leaves it behind.
TreeResponseAfterSave(r) ==
    /\ req[r].pc = "awaitTree"
    /\ \E delivered \in HandlerTreeDeliveries :
         \E fileTree \in {fetchFileTreeResults[delivered]} :
           IF fileTree.thrown
           THEN /\ req' = failed(r, "tree", fileTree.error)
                /\ store' = store \cup
                       {insertedRow(insertValues(req[r].input, req[r].repoInfo,
                                                 <<>>, <<>>), nextId, now)}
                /\ nextId' = nextId + 1
                /\ dbLog' = Append(dbLog, [op |-> "insert", by |-> r, id |-> nextId])
           ELSE /\ req' = [req EXCEPT ![r] =
                          [pc |-> "awaitInsert", input |-> req[r].input,
                           fetched |-> req[r].fetched,
                           values |-> insertValues(req[r].input, req[r].repoInfo,
                                         generateMarkdownContent(req[r].repoInfo,
                                                                 fileTree.value),
                                         fileTree.value)]]
                /\ UNCHANGED <<store, nextId, dbLog>>
    /\ UNCHANGED <<githubUrl, upstream, fetched, outcome, warnings, now>>

\* The tree fetch settles: on success the markdown is generated and the
\* insert is sent.
TreeResponse(r) ==
    /\ req[r].pc = "awaitTree"
    /\ \E delivered \in HandlerTreeDeliveries :
         \E fileTree \in {fetchFileTreeResults[delivered]} :
           IF fileTree.thrown
           THEN req' = failed(r, "tree", fileTree.error)
           ELSE req' = [req EXCEPT ![r] =
                          [pc |-> "awaitInsert", input |-> req[r].input,
                           fetched |-> req[r].fetched,
                           values |-> insertValues(req[r].input, req[r].repoInfo,
                                         generateMarkdownContent(req[r].repoInfo,
                                                                 fileTree.value),
                                         fileTree.value)]]
    /\ UNCHANGED <<githubUrl, upstream, fetched, outcome, warnings,
                   store, nextId, now, dbLog>>

\* A variant of InsertExecuted: the insert is an upsert on github_url, so a
\* second request for a URL takes over the record of the first.
InsertExecutedUpserting(r) ==
    /\ req[r].pc = "awaitInsert"
    /\ \E time \in {now, now + 1} :
         \E id \in {IF \E row \in store : row.github_url = req[r].input
                    THEN (CHOOSE row \in store : row.github_url = req[r].input).id
                    ELSE nextId} :
           \E savedReadme \in {insertedRow(req[r].values, id, time)} :
             /\ store' = {row \in store : row.id /= id} \cup {savedReadme}
             /\ nextId' = nextId + 1
             /\ now' = time
             /\ dbLog' = Append(dbLog, [op |-> "insert", by |-> r, id |-> id])
             /\ req' = [req EXCEPT ![r] = [pc |-> "done", input |-> req[r].input,
                                           fetched |-> req[r].fetched,
                                           response |-> generateReadmeResponse(savedReadme)]]
    /\ UNCHANGED <<githubUrl, upstream, fetched, outcome, warnings>>

\* The insert executes and its returning() row is answered.
InsertExecuted(r) ==
    /\ req[r].pc = "awaitInsert"
    /\ \E time \in {now, now + 1} :
         \E savedReadme \in {insertedRow(req[r].values, nextId, time)} :
           /\ store' = store \cup {savedReadme}
           /\ nextId' = nextId + 1
           /\ now' = time
           /\ dbLog' = Append(dbLog, [op |-> "insert", by |-> r, id |-> nextId])
           /\ req' = [req EXCEPT ![r] = [pc |-> "done", input |-> req[r].input,
                                         fetched |-> req[r].fetched,
                                         response |-> generateReadmeResponse(savedReadme)]]
    /\ UNCHANGED <<githubUrl, upstream, fetched, outcome, warnings>>

Next ==
    \E r \in Requests :
        \/ GenerateReadme(r)
        \/ RepoResponse(r)
        \/ TreeResponse(r)
        \/ InsertExecuted(r)

Spec == Init /\ [][Next]_vars

(***************************************************************************)
(* The store handlers: getReadme (handlers/get_readme.ts), deleteReadme    *)
(* (handlers/delete_readme.ts, the one the router and the tests import),   *)
(* the deleteReadme that handlers/list_readmes.ts also holds, and          *)
(* listReadmes (handlers/list_readmes.ts).                                 *)
(***************************************************************************)
\* The error `README with ID ${id} not found`.
notFound(id) == [message |-> "README not found", id |-> id]

\* getReadme with the description defaulted to the empty string (variant).
getReadmeDefaulted(rows, id) ==
    LET results == {row \in rows : row.id = id}
    IN  IF results = {} THEN Thrown(notFound(id))
        ELSE LET readme == CHOOSE row \in results : TRUE
             IN  Returned([id |-> readme.id,
                           github_url |-> readme.github_url,
                           repository_name |-> readme.repository_name,
                           repository_description |->
                               IF readme.repository_description = Null
                               THEN Str(<<>>) ELSE readme.repository_description,
                           markdown_content |-> readme.markdown_content,
                           file_structure |-> readme.file_structure,
                           created_at |-> readme.created_at,
                           updated_at |-> readme.updated_at])

\* getReadme(input), given the rows of the table when its select executes.
getReadme(rows, id) ==
    LET results == {row \in rows : row.id = id}
    IN  IF results = {} THEN Thrown(notFound(id))
        ELSE LET readme == CHOOSE row \in results : TRUE
             IN  Returned([id |-> readme.id,
                           github_url |-> readme.github_url,
                           repository_name |-> readme.repository_name,
                           repository_description |-> readme.repository_description,
                           markdown_content |-> readme.markdown_content,
                           file_structure |-> readme.file_structure,
                           created_at |-> readme.created_at,
                           updated_at |-> readme.updated_at])

\* deleteReadme(input) of handlers/delete_readme.ts: the placeholder.  It
\* sends no statement and resolves to success.  rows is the table after the
\* call.
deleteReadme(rows, id) ==
    [rows |-> rows, result |-> Returned([success |-> TRUE])]

\* A variant of deleteReadmeReturning: the rows returned are not checked.
deleteReadmeReturningUnchecked(rows, id) ==
    [rows |-> {row \in rows : row.id /= id},
     result |-> Returned([success |-> TRUE])]

\* deleteReadme(input) of handlers/list_readmes.ts: one DELETE ... RETURNING
\* statement, then the check of the rows it returned.
deleteReadmeReturning(rows, id) ==
    LET result == {row \in rows : row.id = id}
    IN  IF result = {}
        THEN [rows |-> rows, result |-> Thrown(notFound(id))]
        ELSE [rows |-> rows \ result, result |-> Returned([success |-> TRUE])]

\* The rows the tests insert: the i-th has a description or none.
testReadme(i) ==
    [github_url |-> <<"https://github.com/user/repo", i>>,
     repository_name |-> <<"repo", i>>,
     repository_description |-> IF i % 2 = 0 THEN Null ELSE Str(a_test_repository),
     markdown_content |-> <<[line |-> "# ", name |-> <<"repo", i>>]>>,
     file_structure |-> JSONstringify(<<>>)]

\* The identifiers given to getReadme and deleteReadme: those issued so far
\* and the next one, which no row has.
Ids == 1..nextId

(***************************************************************************)
(* SpecStore: inserts, getReadme and the two deleteReadme against the      *)
(* table.  outcome holds the call that completed last.                     *)
(***************************************************************************)
InitStore ==
    /\ githubUrl = <<>>
    /\ upstream = <<>>
    /\ fetched = <<>>
    /\ outcome = <<>>
    /\ warnings = 0
    /\ req = [pc |-> "idle"]
    /\ store = {}
    /\ nextId = 1
    /\ now = 0
    /\ dbLog = <<>>

\* db.insert(generatedReadmesTable).values(...).returning().execute()
InsertReadme ==
    /\ nextId <= MaxRecords
    /\ \E time \in {now, now + 1} :
           /\ Cardinality({row \in store : row.created_at = time}) < MaxTied
           /\ store' = store \cup {insertedRow(testReadme(nextId), nextId, time)}
           /\ now' = time
    /\ nextId' = nextId + 1
    /\ UNCHANGED <<githubUrl, upstream, fetched, outcome, warnings, req, dbLog>>

GetReadme ==
    /\ \E id \in Ids :
           outcome' = <<[call |-> "getReadme", id |-> id,
                         result |-> getReadme(store, id)]>>
    /\ UNCHANGED <<githubUrl, upstream, fetched, warnings, req,
                   store, nextId, now, dbLog>>

DeleteReadme ==
    /\ \E id \in Ids :
         \E call \in {deleteReadme(store, id)} :
           /\ store' = call.rows
           /\ outcome' = <<[call |-> "deleteReadme", source |-> "delete_readme.ts",
                            id |-> id, result |-> call.result]>>
    /\ UNCHANGED <<githubUrl, upstream, fetched, warnings, req, nextId, now, dbLog>>

DeleteReadmeReturning ==
    /\ \E id \in Ids :
         \E call \in {deleteReadmeReturning(store, id)} :
           /\ store' = call.rows
           /\ outcome' = <<[call |-> "deleteReadme", source |-> "list_readmes.ts",
                            id |-> id, result |-> call.result]>>
    /\ UNCHANGED <<githubUrl, upstream, fetched, warnings, req, nextId, now, dbLog>>

NextStore ==
    \/ InsertReadme
    \/ GetReadme
    \/ DeleteReadme
    \/ DeleteReadmeReturning

SpecStore == InitStore /\ [][NextStore]_vars

(***************************************************************************)
(* listReadmes (handlers/list_readmes.ts 6-39): a select of one page, then *)
(* a separate count, outside any transaction.                              *)
(***************************************************************************)
RECURSIVE orderByCreatedAtDesc(_)
\* .orderBy(desc(created_at)): the orders the database may return the rows
\* in.  Rows of equal created_at come in any order.
orderByCreatedAtDesc(rows) ==
    IF rows = {} THEN {<<>>}
    ELSE LET newest == {row \in rows :
                           \A other \in rows : other.created_at <= row.created_at}
         IN  UNION {{<<row>> \o rest : rest \in orderByCreatedAtDesc(rows \ {row})} :
                    row \in newest}

\* .orderBy(asc(created_at)) instead.
orderByCreatedAtAsc(rows) ==
    {[i \in 1..Len(order) |-> order[Len(order) + 1 - i]] :
        order \in orderByCreatedAtDesc(rows)}

\* The columns of the select.
listColumns(row) ==
    [id |-> row.id, github_url |-> row.github_url,
     repository_name |-> row.repository_name,
     repository_description |-> row.repository_description,
     created_at |-> row.created_at]

Min(a, b) == IF a <= b THEN a ELSE b

\* .limit(input.limit).offset(input.offset) of an ordered result.
limitOffset(order, limit, offset) ==
    LET page == SubSeq(order, offset + 1, Min(offset + limit, Len(order)))
    IN  [i \in 1..Len(page) |-> listColumns(page[i])]

\* The results the page query may have on the table rows (variant: oldest
\* first).
selectReadmesOldestFirst(rows, limit, offset) ==
    {limitOffset(order, limit, offset) : order \in orderByCreatedAtAsc(rows)}

\* The results the page query may have on the table rows.
selectReadmes(rows, limit, offset) ==
    {limitOffset(order, limit, offset) : order \in orderByCreatedAtDesc(rows)}

\* select count(*): one row holding the count.
countReadmes(rows) == <<[count |-> Cardinality(rows)]>>

\* The value listReadmes returns: total is totalResult[0]?.count || 0.
listReadmesResult(readmes, totalResult, input) ==
    [readmes |-> readmes,
     total |-> IF Len(totalResult) = 0 \/ totalResult[1].count = 0
               THEN 0 ELSE totalResult[1].count,
     limit |-> input.limit,
     offset |-> input.offset]

\* The inputs given to listReadmes: limits and offsets of the tests.
ListInputs == [limit : {1, 2, 10}, offset : {0, 2, 5}]

(***************************************************************************)
(* SpecList: listReadmes while rows are inserted.  req is the listReadmes  *)
(* call: idle, between its two queries, or done; selectedFrom and          *)
(* countedFrom are the tables its two queries read.                        *)
(***************************************************************************)
ListSelect ==
    /\ req.pc \in {"idle", "done"}
    /\ \E input \in ListInputs :
         \E readmes \in selectReadmes(store, input.limit, input.offset) :
           req' = [pc |-> "awaitCount", input |-> input, readmes |-> readmes,
                   selectedFrom |-> store]
    /\ UNCHANGED <<githubUrl, upstream, fetched, outcome, warnings,
                   store, nextId, now, dbLog>>

ListCount ==
    /\ req.pc = "awaitCount"
    /\ req' = [pc |-> "done", input |-> req.input,
               selectedFrom |-> req.selectedFrom, countedFrom |-> store,
               result |-> listReadmesResult(req.readmes, countReadmes(store),
                                            req.input)]
    /\ UNCHANGED <<githubUrl, upstream, fetched, outcome, warnings,
                   store, nextId, now, dbLog>>

NextList ==
    \/ InsertReadme
    \/ ListSelect
    \/ ListCount

SpecList == InitStore /\ [][NextList]_vars

\* SpecListWrites: listReadmes while rows are inserted and deleted by other
\* requests: its two queries are two statements, and a write can execute
\* between them.
NextListWrites ==
    \/ InsertReadme
    \/ DeleteReadme
    \/ DeleteReadmeReturning
    \/ ListSelect
    \/ ListCount

\* The table after earlier requests: its rows were deleted again, and its
\* serial has advanced to the last two of the ids of the run.
InitListWrites ==
    /\ githubUrl = <<>>
    /\ upstream = <<>>
    /\ fetched = <<>>
    /\ outcome = <<>>
    /\ warnings = 0
    /\ req = [pc |-> "idle"]
    /\ store = {}
    /\ nextId = MaxRecords - 1
    /\ now = 0
    /\ dbLog = <<>>

SpecListWrites == InitListWrites /\ [][NextListWrites]_vars

(***************************************************************************)
(* SpecDelete: calls of deleteReadme (handlers/list_readmes.ts) by         *)
(* concurrent requests.  A call sends its one statement, the database      *)
(* executes it at some later moment, as one step, and the call then        *)
(* answers from the rows the statement returned.                           *)
(***************************************************************************)
\* The identifiers asked for: those the run can store, and the next one.
DeleteIds == {id \in Ids : id >= MaxRecords - 1}

InitDelete ==
    /\ githubUrl = <<>>
    /\ upstream = <<>>
    /\ fetched = <<>>
    /\ outcome = <<>>
    /\ warnings = 0
    /\ req = [r \in Requests |-> [pc |-> "idle"]]
    /\ store = {}
    /\ nextId = MaxRecords - 1
    /\ now = 0
    /\ dbLog = <<>>

\* deleteReadme is called: the statement is sent.  stored tells whether the
\* row was in the table at the call.
DeleteCalled(r) ==
    /\ req[r].pc = "idle"
    /\ \E id \in DeleteIds :
           req' = [req EXCEPT ![r] = [pc |-> "awaitDelete", id |-> id,
                                      stored |-> \E row \in store : row.id = id]]
    /\ UNCHANGED <<githubUrl, upstream, fetched, outcome, warnings,
                   store, nextId, now, dbLog>>

\* The database executes the statement of the call.
DeleteExecuted(r) ==
    /\ req[r].pc = "awaitDelete"
    /\ \E call \in {deleteReadmeReturning(store, req[r].id)} :
           /\ store' = call.rows
           /\ dbLog' = Append(dbLog, [op |-> "delete", by |-> r, id |-> req[r].id,
                                      removed |-> Cardinality(store \ call.rows)])
           /\ req' = [req EXCEPT ![r] = [pc |-> "executed", id |-> req[r].id,
                                         stored |-> req[r].stored,
                                         result |-> call.result]]
    /\ UNCHANGED <<githubUrl, upstream, fetched, outcome, warnings, nextId, now>>

\* The call answers: it returns {success: true} or throws.
DeleteAnswered(r) ==
    /\ req[r].pc = "executed"
    /\ req' = [req EXCEPT ![r] = [pc |-> IF req[r].result.thrown
                                         THEN "failed" ELSE "done",
                                  id |-> req[r].id, stored |-> req[r].stored,
                                  result |-> req[r].result]]
    /\ UNCHANGED <<githubUrl, upstream, fetched, outcome, warnings,
                   store, nextId, now, dbLog>>

NextDelete ==
    \/ InsertReadme
    \/ \E r \in Requests :
          \/ DeleteCalled(r)
          \/ DeleteExecuted(r)
          \/ DeleteAnswered(r)

SpecDelete == InitDelete /\ [][NextDelete]_vars

(***************************************************************************)
(* SpecClient: the history tab of the client (client/src/App.tsx) against  *)
(* the server.  req holds the React state of App (readmes, total,          *)
(* selectedReadme, errorMessage) and the two requests the handlers await:  *)
(* a handler runs up to its await, the server executes the procedure, and  *)
(* the handler resumes with the response.  deleted is the identifiers      *)
(* whose deletion has been answered with success.                          *)
(***************************************************************************)
\* Rows in the table, and in the list, when the history tab has loaded.
MaxShown == 2

itemsPerPage == 10

InitClient ==
    /\ githubUrl = <<>>
    /\ upstream = <<>>
    /\ fetched = <<>>
    /\ outcome = <<>>
    /\ warnings = 0
    /\ store = {insertedRow(testReadme(i), i, i) : i \in 1..MaxShown}
    /\ nextId = MaxShown + 1
    /\ now = MaxShown
    /\ dbLog = <<>>
    /\ \E loaded \in selectReadmes(store, itemsPerPage, 0) :
          req = [readmes |-> loaded,
                 total |-> Cardinality(store),
                 selectedReadme |-> Null,
                 errorMessage |-> Null,
                 select |-> [pc |-> "idle"],
                 delete |-> [pc |-> "idle"],
                 deleted |-> {}]

\* handleReadmeSelect(readmeId) up to its await: the View button of a row
\* of the list is clicked.
HandleReadmeSelect ==
    /\ req.select.pc = "idle"
    /\ \E k \in 1..Len(req.readmes) :
          req' = [req EXCEPT !.select = [pc |-> "awaitGet", id |-> req.readmes[k].id]]
    /\ UNCHANGED <<githubUrl, upstream, fetched, outcome, warnings,
                   store, nextId, now, dbLog>>

\* The server executes getReadme for the pending query.
GetReadmeExecuted ==
    /\ req.select.pc = "awaitGet"
    /\ req' = [req EXCEPT !.select = [pc |-> "responded", id |-> req.select.id,
                                      result |-> getReadme(store, req.select.id)]]
    /\ UNCHANGED <<githubUrl, upstream, fetched, outcome, warnings,
                   store, nextId, now, dbLog>>

\* handleReadmeSelect resumes with the response.
SelectResumed ==
    /\ req.select.pc = "responded"
    /\ req' = IF req.select.result.thrown
              THEN [req EXCEPT !.errorMessage = Str("Failed to load README details. Please try again."),
                               !.select = [pc |-> "idle"]]
              ELSE [req EXCEPT !.selectedReadme = req.select.result.value,
                               !.select = [pc |-> "idle"]]
    /\ UNCHANGED <<githubUrl, upstream, fetched, outcome, warnings,
                   store, nextId, now, dbLog>>

\* handleReadmeDelete(readmeId) up to its await: the deletion of a row of
\* the list is confirmed.  The callback is the one of the last render: it
\* holds the selectedReadme of that render.
HandleReadmeDelete ==
    /\ req.delete.pc = "idle"
    /\ \E k \in 1..Len(req.readmes) :
          req' = [req EXCEPT !.delete = [pc |-> "awaitDelete",
                                        id |-> req.readmes[k].id,
                                        selectedReadme |-> req.selectedReadme]]
    /\ UNCHANGED <<githubUrl, upstream, fetched, outcome, warnings,
                   store, nextId, now, dbLog>>

\* The server executes deleteReadme for the pending mutation: the routed
\* handler, or the one of list_readmes.ts.
DeleteReadmeExecuted ==
    /\ req.delete.pc = "awaitDelete"
    /\ \E call \in {deleteReadme(store, req.delete.id),
                     deleteReadmeReturning(store, req.delete.id)} :
          /\ store' = call.rows
          /\ req' = [req EXCEPT !.delete = [pc |-> "responded",
                                            id |-> req.delete.id,
                                            selectedReadme |-> req.delete.selectedReadme,
                                            result |-> call.result]]
    /\ UNCHANGED <<githubUrl, upstream, fetched, outcome, warnings,
                   nextId, now, dbLog>>

\* handleReadmeDelete resumes with the response.
DeleteResumed ==
    /\ req.delete.pc = "responded"
    /\ req' = IF req.delete.result.thrown
              THEN [req EXCEPT !.errorMessage = Str("Failed to delete README. Please try again."),
                               !.delete = [pc |-> "idle"]]
              ELSE [req EXCEPT
                      !.readmes = SelectSeq(@, LAMBDA readme : readme.id /= req.delete.id),
                      !.total = @ - 1,
                      !.selectedReadme =
                          IF /\ req.delete.selectedReadme /= Null
                             /\ req.delete.selectedReadme.id = req.delete.id
                          THEN Null ELSE @,
                      !.delete = [pc |-> "idle"],
                      !.deleted = @ \cup {req.delete.id}]
    /\ UNCHANGED <<githubUrl, upstream, fetched, outcome, warnings,
                   store, nextId, now, dbLog>>

NextClient ==
    \/ HandleReadmeSelect
    \/ GetReadmeExecuted
    \/ SelectResumed
    \/ HandleReadmeDelete
    \/ DeleteReadmeExecuted
    \/ DeleteResumed

SpecClient == InitClient /\ [][NextClient]_vars

(***************************************************************************)
(* handlers/generate_markdown.ts: generateMarkdownReadme.  A text is the   *)
(* sequence of its lines; a line is a record of its fixed text and the     *)
(* values set into it.  The box-drawing characters are written in ASCII as *)
(* in renderFileTree, and an icon is written as its name.                  *)
(***************************************************************************)
\* String(n) for a natural number.
RECURSIVE String(_)
String(n) == IF n < 10 THEN <<Digits[n + 1]>>
             ELSE String(n \div 10) \o <<Digits[(n % 10) + 1]>>

\* Number.prototype.toLocaleString() in the en-US locale: groups of three
\* digits separated by commas.
toLocaleString(n) ==
    LET digits == String(n)
        grouped[i \in 0..Len(digits)] ==
            IF i = 0 THEN <<>>
            ELSE grouped[i - 1]
                 \o (IF i > 1 /\ (Len(digits) - i + 1) % 3 = 0 THEN <<",">> ELSE <<>>)
                 \o <<digits[i]>>
    IN  grouped[Len(digits)]

\* encodeURIComponent for the characters of the model: letters, - and . are
\* kept, the others are percent-encoded.
encodeURIComponent(s) ==
    LET encoded(c) ==
            CASE c = " " -> <<"%", "2", "0">>
              [] c = "/" -> <<"%", "2", "F">>
              [] c = ":" -> <<"%", "3", "A">>
              [] c = "?" -> <<"%", "3", "F">>
              [] c = "#" -> <<"%", "2", "3">>
              [] OTHER -> <<c>>
        all[i \in 0..Len(s)] == IF i = 0 THEN <<>> ELSE all[i - 1] \o encoded(s[i])
    IN  all[Len(s)]

\* node.name.split('.').pop()?.toLowerCase()
extension(name) ==
    LET parts == split(name, ".")
        last == parts[Len(parts)]
    IN  [i \in 1..Len(last) |-> toLowerCase[last[i]]]

\* getFileIcon(node): the icon of a directory, of a README, of the
\* extension in iconMap, or the default one.
getFileIcon(node) ==
    LET ext == extension(node.name)
        fileName == [i \in 1..Len(node.name) |-> toLowerCase[node.name[i]]]
    IN  IF node.type = "directory" THEN "folder"
        ELSE IF fileName \in {<<"r", "e", "a", "d", "m", "e", ".", "m", "d">>,
                              <<"r", "e", "a", "d", "m", "e">>} THEN "open book"
        ELSE CASE ext = <<"j", "s">> -> "yellow square"
               [] ext = <<"t", "s">> -> "blue diamond"
               [] ext = <<"j", "s", "o", "n">> -> "clipboard"
               [] ext = <<"m", "d">> -> "memo"
               [] ext = <<"t", "x", "t">> -> "page"
               [] ext = <<"p", "y">> -> "snake"
               [] ext = <<"j", "a", "v", "a">> -> "coffee"
               [] ext = <<"h", "t", "m", "l">> -> "globe"
               [] ext = <<"c", "s", "s">> -> "palette"
               [] ext \in {<<"y", "m", "l">>, <<"y", "a", "m", "l">>} -> "gear"
               [] ext = <<"x", "m", "l">> -> "newspaper"
               [] ext = <<"s", "q", "l">> -> "file cabinet"
               [] ext = <<"s", "h">> -> "shell"
               [] ext = <<"d", "o", "c", "k", "e", "r", "f", "i", "l", "e">> -> "whale"
               [] ext = <<"g", "i", "t", "i", "g", "n", "o", "r", "e">> -> "prohibited"
               [] ext = <<"l", "i", "c", "e", "n", "s", "e">> -> "scroll"
               [] OTHER -> "page"

\* generateFileTreeText(nodes, prefix, isRoot): the root indicator, then one
\* line per node, depth first.
RECURSIVE generateFileTreeText(_, _, _)
generateFileTreeText(nodes, prefix, isRoot) ==
    LET line(index) ==
            LET node == nodes[index]
                isLast == index = Len(nodes)
                own == <<[prefix |-> prefix,
                          connector |-> IF isLast THEN "+-- " ELSE "|-- ",
                          icon |-> getFileIcon(node),
                          name |-> node.name]>>
            IN  IF "children" \in DOMAIN node /\ Len(node.children) > 0
                THEN own \o generateFileTreeText(node.children,
                                Append(prefix, IF isLast THEN "    " ELSE "|   "),
                                FALSE)
                ELSE own
        lines[index \in 0..Len(nodes)] ==
            IF index = 0
            THEN (IF isRoot /\ Len(nodes) > 0 THEN <<[line |-> "."]>> ELSE <<>>)
            ELSE lines[index - 1] \o line(index)
    IN  lines[Len(nodes)]

\* generateFileStructure with the root level drawn last to first (variant).
generateFileStructureReversed(fileTree) ==
    IF Len(fileTree) = 0
    THEN <<[line |-> "## Project Structure"], [line |-> ""],
           [line |-> "*No file structure available*"]>>
    ELSE <<[line |-> "## Project Structure"], [line |-> ""],
           [line |-> "code fence"]>>
         \o generateFileTreeText([k \in 1..Len(fileTree) |->
                                     fileTree[Len(fileTree) + 1 - k]], <<>>, TRUE)
         \o <<[line |-> "code fence"]>>

\* generateFileStructure(fileTree)
generateFileStructure(fileTree) ==
    IF Len(fileTree) = 0
    THEN <<[line |-> "## Project Structure"], [line |-> ""],
           [line |-> "*No file structure available*"]>>
    ELSE <<[line |-> "## Project Structure"], [line |-> ""],
           [line |-> "code fence"]>>
         \o generateFileTreeText(fileTree, <<>>, TRUE)
         \o <<[line |-> "code fence"]>>

\* analyzeFileStructure(nodes): the counts of the traversal and the
\* extensions in the order they are first met, at most 10.
RECURSIVE traverse(_, _)
traverse(stats, nodeList) ==
    LET visit(st, node) ==
            LET counted ==
                    IF node.type = "file"
                    THEN [st EXCEPT !.totalFiles = @ + 1,
                             !.extensions =
                                 IF Len(extension(node.name)) > 0
                                    /\ \A k \in 1..Len(@) : @[k] /= extension(node.name)
                                 THEN Append(@, extension(node.name)) ELSE @]
                    ELSE [st EXCEPT !.totalDirectories = @ + 1]
            IN  IF "children" \in DOMAIN node
                THEN traverse(counted, node.children) ELSE counted
        visited[i \in 0..Len(nodeList)] ==
            IF i = 0 THEN stats ELSE visit(visited[i - 1], nodeList[i])
    IN  visited[Len(nodeList)]

\* A variant of analyzeFileStructure: every extension met is listed.
analyzeFileStructureUncut(nodes) ==
    LET stats == traverse([totalFiles |-> 0, totalDirectories |-> 0,
                           extensions |-> <<>>], nodes)
    IN  [totalFiles |-> stats.totalFiles,
         totalDirectories |-> stats.totalDirectories,
         fileTypes |-> stats.extensions]

analyzeFileStructure(nodes) ==
    LET stats == traverse([totalFiles |-> 0, totalDirectories |-> 0,
                           extensions |-> <<>>], nodes)
    IN  [totalFiles |-> stats.totalFiles,
         totalDirectories |-> stats.totalDirectories,
         fileTypes |-> slice(stats.extensions, 0, 10)]

\* generateTechnicalDetails without the return for an empty tree (variant).
generateTechnicalDetailsOfAnyTree(repoInfo, fileTree) ==
    LET stats == analyzeFileStructure(fileTree)
    IN  <<[line |-> "## Technical Overview"], [line |-> ""],
          [line |-> "- **Total Files**: ", text |-> String(stats.totalFiles)],
          [line |-> "- **Total Directories**: ",
           text |-> String(stats.totalDirectories)],
          [line |-> "- **File Types**: ",
           types |-> IF Len(stats.fileTypes) = 0 THEN <<"Mixed">>
                     ELSE stats.fileTypes],
          [line |-> "- **Repository Size**: Analysis based on files",
           text |-> String(stats.totalFiles)]>>

\* generateTechnicalDetails(repoInfo, fileTree)
generateTechnicalDetails(repoInfo, fileTree) ==
    LET stats == analyzeFileStructure(fileTree)
    IN  IF stats.totalFiles = 0 /\ stats.totalDirectories = 0 THEN <<>>
        ELSE <<[line |-> "## Technical Overview"], [line |-> ""],
               [line |-> "- **Total Files**: ", text |-> String(stats.totalFiles)],
               [line |-> "- **Total Directories**: ",
                text |-> String(stats.totalDirectories)],
               [line |-> "- **File Types**: ",
                types |-> IF Len(stats.fileTypes) = 0 THEN <<"Mixed">>
                          ELSE stats.fileTypes],
               [line |-> "- **Repository Size**: Analysis based on files",
                text |-> String(stats.totalFiles)]>>

\* generateFooter with the unused `timestamp` set into the last line
\* (variant).
generateFooterStamped(date) ==
    <<[line |-> "---"], [line |-> ""],
      [line |-> "*This README was automatically generated on *",
       localeDate |-> date],
      [line |-> ""],
      [line |-> "*For the most up-to-date information, please visit the [original repository](https://github.com).*",
       isoDate |-> date]>>

\* generateFooter(): the line of the generation time is made of the clock
\* reading, to the minute.
generateFooter(date) ==
    <<[line |-> "---"], [line |-> ""],
      [line |-> "*This README was automatically generated on *",
       localeDate |-> date],
      [line |-> ""],
      [line |-> "*For the most up-to-date information, please visit the [original repository](https://github.com).*"]>>

\* sections.filter(Boolean).join('\n\n') for sections given as line
\* sequences: the empty ones are dropped, a blank line separates the others.
RECURSIVE joinSections(_)
joinSections(sections) ==
    IF Len(sections) = 0 THEN <<>>
    ELSE IF Len(sections[1]) = 0 THEN joinSections(Tail(sections))
    ELSE LET rest == joinSections(Tail(sections))
         IN  IF Len(rest) = 0 THEN sections[1]
             ELSE sections[1] \o <<[line |-> ""]>> \o rest

\* The sections of generateMarkdownReadme, in the order of the array, for a
\* footer made at the clock reading date.
sections(repoInfo, fileTree, date) ==
    LET generateHeader ==
            <<[line |-> "# ", text |-> repoInfo.name], [line |-> ""],
              [line |-> "> ",
               text |-> IF falsy(repoInfo.description)
                        THEN <<"A GitHub repository">>
                        ELSE repoInfo.description.s]>>
        generateDescription ==
            IF falsy(repoInfo.description) THEN <<>>
            ELSE <<[line |-> "## Description"], [line |-> ""],
                   [text |-> repoInfo.description.s]>>
        badges ==
            (IF ~falsy(repoInfo.language)
             THEN <<[badge |-> "Language",
                     text |-> encodeURIComponent(repoInfo.language.s)]>>
             ELSE <<>>)
            \o <<[badge |-> "Stars", text |-> String(repoInfo.stars_count)],
                 [badge |-> "Forks", text |-> String(repoInfo.forks_count)]>>
        generateBadges ==
            IF Len(badges) > 0
            THEN <<[line |-> "## Badges"], [line |-> ""], [badges |-> badges]>>
            ELSE <<>>
        generateRepositoryInfo ==
            <<[line |-> "## Repository Information"], [line |-> ""],
              [line |-> "| Property | Value |"],
              [line |-> "|----------|--------|"],
              [line |-> "| **Repository** | ", text |-> repoInfo.full_name,
               url |-> repoInfo.html_url],
              [line |-> "| **Default Branch** | ", text |-> repoInfo.default_branch],
              [line |-> "| **Primary Language** | ",
               text |-> IF falsy(repoInfo.language) THEN Not_specified
                        ELSE repoInfo.language.s],
              [line |-> "| **Stars** | ", text |-> toLocaleString(repoInfo.stars_count)],
              [line |-> "| **Forks** | ", text |-> toLocaleString(repoInfo.forks_count)],
              [line |-> "| **Created** | ", localeDate |-> repoInfo.created_at],
              [line |-> "| **Last Updated** | ", localeDate |-> repoInfo.updated_at]>>
        generateGettingStarted ==
            <<[line |-> "## Getting Started"], [line |-> ""],
              [line |-> "To get started with this repository:"], [line |-> ""],
              [line |-> "1. **Clone the repository**"],
              [line |-> "code fence bash"],
              [line |-> "git clone ", text |-> repoInfo.html_url \o dot_git],
              [line |-> "cd ", text |-> repoInfo.name],
              [line |-> "code fence"], [line |-> ""],
              [line |-> "2. **Explore the codebase**"], [line |-> ""],
              [line |-> "3. **Follow repository-specific instructions**"],
              [line |-> ""],
              [line |-> "## Contributing"], [line |-> ""],
              [line |-> "For contribution guidelines, please refer to the original repository at ",
               url |-> repoInfo.html_url]>>
    IN  <<generateHeader, generateDescription, generateBadges,
          generateRepositoryInfo, generateFileStructure(fileTree),
          generateTechnicalDetails(repoInfo, fileTree),
          generateGettingStarted, generateFooter(date)>>

\* generateMarkdownReadme(repoInfo, fileTree), called at the clock reading
\* date.
generateMarkdownReadme(repoInfo, fileTree, date) ==
    joinSections(sections(repoInfo, fileTree, date))

\* What the renderer is run on: the repository of its tests, with the
\* description and the language null, empty or set, and the trees of its
\* tests.
testRepoInfos ==
    {repositoryInfo([name |-> <<"r">>, full_name |-> <<"o", "/", "r">>,
                     description |-> d, html_url |-> url_o_r,
                     default_branch |-> main,
                     created_at |-> date_created, updated_at |-> date_updated,
                     language |-> l, stargazers_count |-> 123456,
                     forks_count |-> 42]) :
        d \in {Null, Str(<<>>), Str(a_test_repository)},
        l \in {Null, Str(<<>>), Str(typescript)}}

testFileTree ==
    <<[newNode(Tree(src), src) EXCEPT !.children =
          <<newNode(Blob(src_index_ts), <<"i", "n", "d", "e", "x", ".", "t", "s">>),
            [newNode(Tree(src_utils), <<"u", "t", "i", "l", "s">>) EXCEPT !.children =
                <<newNode(Blob(src_utils_helper_ts),
                          <<"h", "e", "l", "p", "e", "r", ".", "t", "s">>)>>]>>],
      newNode(Blob(package_json), package_json),
      newNode(Blob(README_md), README_md)>>

deepFileTree ==
    <<[newNode(Tree(src), src) EXCEPT !.children =
          <<[newNode(Tree(src_utils), <<"u", "t", "i", "l", "s">>) EXCEPT !.children =
                <<newNode(Blob(src_utils_helper_ts),
                          <<"h", "e", "l", "p", "e", "r", ".", "t", "s">>)>>]>>]>>

\* The tree of the test of the file-type limit: file0.ext0 .. file14.ext14.
manyTypesTree ==
    [i \in 1..15 |->
        LET name == <<"f", "i", "l", "e">> \o String(i - 1)
                    \o <<".", "e", "x", "t">> \o String(i - 1)
        IN  newNode(Blob(name), name)]

testFileTrees == {<<>>, testFileTree, deepFileTree, manyTypesTree}

(***************************************************************************)
(* SpecRender: calls of generateMarkdownReadme on one input (upstream      *)
(* holds the metadata and the tree given to every call) while the clock    *)
(* advances and the texts rendered are saved to the table.                 *)
(***************************************************************************)
InitRender ==
    /\ githubUrl = <<>>
    /\ upstream \in [repoInfo : testRepoInfos, fileTree : testFileTrees]
    /\ fetched = <<>>
    /\ outcome = <<>>
    /\ warnings = 0
    /\ req = [pc |-> "idle"]
    /\ store = {}
    /\ nextId = 1
    /\ now = 0
    /\ dbLog = <<>>

\* A call: the footer reads the clock, which may have moved on since the
\* call before.  rows is the table at the time of the call.
GenerateMarkdownReadme ==
    /\ Len(outcome) < MaxCalls
    /\ \E date \in {now, now + 1} :
           /\ now' = date
           /\ outcome' = Append(outcome,
                            [call |-> "generateMarkdownReadme",
                             repoInfo |-> upstream.repoInfo,
                             fileTree |-> upstream.fileTree,
                             date |-> date, rows |-> store,
                             result |-> generateMarkdownReadme(upstream.repoInfo,
                                                               upstream.fileTree, date)])
    /\ UNCHANGED <<githubUrl, upstream, fetched, warnings, req,
                   store, nextId, dbLog>>

\* The caller saves a text it has rendered, as generateReadme does with its
\* own.
SaveMarkdown ==
    /\ nextId <= Len(outcome)
    /\ store' = store \cup
          {insertedRow(insertValues(upstream.repoInfo.html_url, upstream.repoInfo,
                                    outcome[nextId].result, upstream.fileTree),
                       nextId, now)}
    /\ nextId' = nextId + 1
    /\ UNCHANGED <<githubUrl, upstream, fetched, outcome, warnings, req, now, dbLog>>

NextRender ==
    \/ GenerateMarkdownReadme
    \/ SaveMarkdown

SpecRender == InitRender /\ [][NextRender]_vars

(***************************************************************************)
(*                              PROPERTIES                                 *)
(***************************************************************************)
\* The UTF-16 code unit order: punctuation < capitals < small letters.
CodeUnit == [c \in Characters |->
                IF IndexOf(Punctuation, c) > 0 THEN IndexOf(Punctuation, c)
                ELSE IF IndexOf(Capitals, c) > 0 THEN 10 + IndexOf(Capitals, c)
                ELSE 40 + IndexOf(Letters, c)]

\* The lexicographic order of strings by their code units.
localeCompareCodeUnits(a, b) == CompareFrom(a, b, CodeUnit, 1)


\* The nodes of a tree, at every depth.
RECURSIVE NodesOf(_)
NodesOf(nodes) ==
    UNION {{nodes[k]} \cup (IF "children" \in DOMAIN nodes[k]
                            THEN NodesOf(nodes[k].children) ELSE {}) :
           k \in 1..Len(nodes)}

\* The number of nodes of a tree.
RECURSIVE CountNodes(_)
CountNodes(nodes) ==
    IF Len(nodes) = 0 THEN 0
    ELSE 1 + (IF "children" \in DOMAIN Head(nodes)
              THEN CountNodes(Head(nodes).children) ELSE 0)
           + CountNodes(Tail(nodes))

\* The number of nodes of a tree that carry the path.
RECURSIVE CountPath(_, _)
CountPath(nodes, path) ==
    IF Len(nodes) = 0 THEN 0
    ELSE (IF Head(nodes).path = path THEN 1 ELSE 0)
         + (IF "children" \in DOMAIN Head(nodes)
            THEN CountPath(Head(nodes).children, path) ELSE 0)
         + CountPath(Tail(nodes), path)

\* The sibling sequences of a tree: the root sequence and the children of
\* every directory node.
SiblingSequences(root) ==
    {root} \cup {n.children : n \in {m \in NodesOf(root) : "children" \in DOMAIN m}}

\* The proper ancestors of a path: its proper prefixes that end before a "/".
Ancestors(path) ==
    LET pathParts == split(path, "/")
    IN  {join(SubSeq(pathParts, 1, k), "/") : k \in 1..(Len(pathParts) - 1)}

\* Every proper ancestor of the path is a tree entry of the listing.
AncestorsListed(listing, path) ==
    \A a \in Ancestors(path) : \E k \in 1..Len(listing) : listing[k] = Tree(a)

\* The calls that returned a tree, and those of them that buildFileTree built.
Reconstructed == {k \in 1..Len(outcome) : "filteredTree" \in DOMAIN outcome[k]}
Built == {k \in Reconstructed : outcome[k].call = "fetchGitHubFileTree"}

\* The upstream answer of a call was a 2xx response with a listing.
ListingDelivered(k) ==
    /\ "status" \in DOMAIN outcome[k].given
    /\ ok(outcome[k].given)
    /\ ~outcome[k].given.json.rejects
    /\ outcome[k].given.json.value.t = "object"

\* The listing the upstream answer of a call carried.
ListingGiven(k) == outcome[k].given.json.value.tree

DirectoriesFirst(siblings) ==
    \A i, j \in 1..Len(siblings) :
        (siblings[i].type = "file" /\ siblings[j].type = "directory") => j < i

InCodeUnitOrder(siblings) ==
    \A i, j \in 1..Len(siblings) :
        (i < j /\ siblings[i].type = siblings[j].type)
            => localeCompareCodeUnits(siblings[i].path, siblings[j].path) < 0

InCollationOrder(siblings) ==
    \A i, j \in 1..Len(siblings) :
        (i < j /\ siblings[i].type = siblings[j].type)
            => localeCompare(siblings[i].path, siblings[j].path) < 0

Scenario == <<Blob(README_md), Tree(src), Blob(src_index_ts), Blob(package_json)>>

File(name, path) == [name |-> name, type |-> "file", path |-> path]
Directory(name, path, children) ==
    [name |-> name, type |-> "directory", path |-> path, children |-> children]

\* C3 (as stated): every sibling sequence has its directories before its
\* files and nodes of the same kind in lexicographic (code unit) path order,
\* and the scenario listing gives the root [src [index.ts], README.md,
\* package.json].  The code does not do this.
C3_SiblingsInCodeUnitOrder ==
    \A k \in Built :
        /\ \A s \in SiblingSequences(outcome[k].result.value) :
               DirectoriesFirst(s) /\ InCodeUnitOrder(s)
        /\ outcome[k].filteredTree = Scenario
               => outcome[k].result.value =
                      <<Directory(src, src, <<File(index_ts, src_index_ts)>>),
                        File(README_md, README_md),
                        File(package_json, package_json)>>

\* C3 (amended): every sibling sequence has its directories before its files
\* and nodes of the same kind in the order of localeCompare on their paths
\* (collation order: letters compare without regard to case first), and the
\* scenario listing gives the root [src [index.ts], package.json, README.md].
C3_SiblingsInCollationOrder ==
    \A k \in Built :
        /\ \A s \in SiblingSequences(outcome[k].result.value) :
               DirectoriesFirst(s) /\ InCollationOrder(s)
        /\ outcome[k].filteredTree = Scenario
               => outcome[k].result.value =
                      <<Directory(src, src, <<File(index_ts, src_index_ts)>>),
                        File(package_json, package_json),
                        File(README_md, README_md)>>

\* The scenario listing has been reconstructed, in the order it is stated.
C3_Witness ==
    \E k \in Built : ListingGiven(k) = Scenario /\ outcome[k].filteredTree = Scenario

\* C4: for a listing within the ceiling in which every proper ancestor of
\* every entry is present as a tree entry, every blob path is the path of
\* exactly one node of the reconstructed tree.
C4_EveryBlobOnce ==
    \A k \in Built :
        LET listing == outcome[k].filteredTree
        IN  (/\ Len(ListingGiven(k)) <= MAX_FILES
             /\ \A e \in 1..Len(listing) : AncestorsListed(listing, listing[e].path))
            => \A e \in 1..Len(listing) :
                   listing[e].type = "blob"
                       => CountPath(outcome[k].result.value, listing[e].path) = 1

\* A listing with a blob two directories deep, all ancestors listed, has
\* been reconstructed.
C4_Witness ==
    \E k \in Built :
        LET listing == outcome[k].filteredTree
        IN  /\ Len(ListingGiven(k)) <= MAX_FILES
            /\ \A e \in 1..Len(listing) : AncestorsListed(listing, listing[e].path)
            /\ \E e \in 1..Len(listing) :
                   /\ listing[e].type = "blob"
                   /\ Len(split(listing[e].path, "/")) = 3
                   /\ CountPath(outcome[k].result.value, listing[e].path) = 1

\* C5: an entry whose parent path has no tree entry is absent from the
\* tree, and so is everything below it; the call returns normally and the
\* entries that can be attached are present: an entry is a node of the tree
\* exactly when all its proper ancestors are tree entries of the listing.
C5_OrphansSkipped ==
    \A k \in 1..Len(outcome) :
        ListingDelivered(k)
        => /\ k \in Reconstructed
           /\ ~outcome[k].result.thrown
           /\ LET listing == outcome[k].filteredTree
              IN  \A e \in 1..Len(listing) :
                      CountPath(outcome[k].result.value, listing[e].path)
                        = IF AncestorsListed(listing, listing[e].path) THEN 1 ELSE 0

\* A listing with an orphan directory, an entry below it, and an attachable
\* entry has been reconstructed by buildFileTree.
C5_Witness ==
    \E k \in Built :
        LET listing == outcome[k].filteredTree
            present(path) == CountPath(outcome[k].result.value, path) = 1
        IN  /\ \E e \in 1..Len(listing) :
                  /\ listing[e] = Tree(src_utils) /\ ~present(src_utils)
            /\ \E e \in 1..Len(listing) :
                  /\ listing[e] = Blob(src_utils_helper_ts)
                  /\ ~present(src_utils_helper_ts)
            /\ present(README_md)

\* C6: reconstruction is deterministic: two runs of the same function on the
\* same listing (the listing object of one upstream answer, run after run,
\* or two equal listings) return identical trees.
C6_Deterministic ==
    \A j, k \in Reconstructed :
        (/\ outcome[j].call = outcome[k].call
         /\ (k = j + 1 \/ ListingGiven(j) = ListingGiven(k)))
        => outcome[j].result = outcome[k].result

\* fetchGitHubFileTree has run twice on a listing that its first run
\* reordered, and built a tree with a nested node.
C6_Witness ==
    \E k \in Built :
        /\ k + 1 \in Built
        /\ ListingGiven(k) # ListingGiven(k + 1)
        /\ \E n \in NodesOf(outcome[k + 1].result.value) :
               "children" \in DOMAIN n /\ Len(n.children) > 0

\* An entry is a well-known file or has at most two path segments.
WellKnownOrShallow(entry) ==
    entry.path \in importantPaths \/ Len(split(entry.path, "/")) <= 2

InSeq(x, seq) == \E i \in 1..Len(seq) : seq[i] = x

\* C7: when the upstream listing has more entries than the ceiling, the
\* reduced list handed to reconstruction contains every entry of it that is
\* a well-known file or has at most two path segments.
C7_ImportantEntriesKept ==
    \A k \in Built :
        Len(ListingGiven(k)) > MAX_FILES
        => \A e \in 1..Len(ListingGiven(k)) :
               WellKnownOrShallow(ListingGiven(k)[e])
                   => InSeq(ListingGiven(k)[e], outcome[k].filteredTree)

\* A listing above the ceiling has been reduced: a well-known file was kept
\* and a deep entry was dropped.
C7_Witness ==
    \E k \in Built :
        /\ Len(ListingGiven(k)) > MAX_FILES
        /\ InSeq(Blob(README_md), ListingGiven(k))
        /\ InSeq(Blob(README_md), outcome[k].filteredTree)
        /\ \E e \in 1..Len(ListingGiven(k)) :
               ~InSeq(ListingGiven(k)[e], outcome[k].filteredTree)

\* C8 (as stated): the number of entries handed to reconstruction, and the
\* number of nodes of the returned tree, is at most the ceiling.  The code
\* keeps every well-known or shallow entry, however many there are.
C8_AtMostCeiling ==
    \A k \in Built :
        /\ Len(outcome[k].filteredTree) <= MAX_FILES
        /\ CountNodes(outcome[k].result.value) <= MAX_FILES

\* The named error of the taxonomy an error of the code stands for.
ErrorName(error) ==
    CASE error.message = "Repository not found or is private" -> "RepositoryNotFound"
      [] error.message = "GitHub API rate limit exceeded" -> "RateLimitExceeded"
      [] error.message = "Access forbidden - repository may be private" -> "AccessForbidden"
      [] error.message = "Invalid GitHub token" -> "InvalidCredential"
      [] error.message = "GitHub API error" -> "UpstreamApiError"
      [] error.message \in {"fetch failed", "Failed to fetch data from GitHub API"}
            -> "NetworkError"
      [] error.message = "Failed to parse GitHub URL" -> "InvalidUrlFormat"
      [] OTHER -> "none"

\* The calls of fetchGitHubRepository that made their upstream request.
Requested == {k \in 1..Len(outcome) :
                 outcome[k].result.thrown
                     => ErrorName(outcome[k].result.error) # "InvalidUrlFormat"}

\* The body of a response carries a message with the rate-limit indicator.
RateLimitIndicated(response) ==
    /\ ~response.json.rejects
    /\ response.json.value.t = "object"
    /\ "message" \in DOMAIN response.json.value
    /\ response.json.value.message.t = "string"
    /\ includes(response.json.value.message.s, rate_limit)

\* The named error the classification table gives for what fetch delivers.
Classified(delivered) ==
    IF "rejects" \in DOMAIN delivered THEN "NetworkError"
    ELSE IF ok(delivered) THEN "none"
    ELSE IF delivered.status = 404 THEN "RepositoryNotFound"
    ELSE IF delivered.status = 403
    THEN (IF RateLimitIndicated(delivered) THEN "RateLimitExceeded"
          ELSE "AccessForbidden")
    ELSE IF delivered.status = 401 THEN "InvalidCredential"
    ELSE "UpstreamApiError"

\* C9 (as stated): a request of makeGitHubApiRequest fails with the named
\* error its response's status gives: RepositoryNotFound on 404,
\* RateLimitExceeded on a 403 with a rate-limit indicator, AccessForbidden on
\* any other 403, InvalidCredential on 401, UpstreamApiError with the status
\* on any other non-2xx, NetworkError without a response, and with none of
\* them on a 2xx.  The code fails a 403 whose body is the JSON null, or has
\* a message that is not a string, with a TypeError.
C9_ClassificationTable ==
    \A k \in Requested :
        LET name == IF outcome[k].result.thrown
                    THEN ErrorName(outcome[k].result.error) ELSE "none"
        IN  /\ name = Classified(outcome[k].given)
            /\ name = "UpstreamApiError"
                   => outcome[k].result.error.status = outcome[k].given.status

\* The parse table: the URLs that are well formed, on github.com and have
\* two path segments, with their first segment and their second segment
\* less one trailing .git.
WellFormedRepositoryUrls ==
    {[url |-> url_o_r, owner |-> <<"o">>, name |-> <<"r">>],
     [url |-> url_o_r_git, owner |-> <<"o">>, name |-> <<"r">>],
     [url |-> url_o_r_git_slash, owner |-> <<"o">>, name |-> <<"r">>],
     [url |-> url_o_r_github, owner |-> <<"o">>,
      name |-> <<"r", ".", "g", "i", "t", "h", "u", "b">>],
     [url |-> url_o_r_git_git, owner |-> <<"o">>, name |-> <<"r", ".", "g", "i", "t">>],
     [url |-> url_o_dot_git, owner |-> <<"o">>, name |-> <<>>],
     [url |-> url_o_r_tree_main, owner |-> <<"o">>, name |-> <<"r">>],
     [url |-> url_o__r, owner |-> <<"o">>, name |-> <<"r">>],
     [url |-> url_o_r_query, owner |-> <<"o">>, name |-> <<"r">>],
     [url |-> url_capital_host, owner |-> <<"o">>, name |-> <<"r">>],
     [url |-> url_http, owner |-> <<"o">>, name |-> <<"r">>]}

\* The strings that are no URL, have another host, or fewer than 2 segments.
OtherUrls == {url_o, url_o_query, url_root, url_no_path, url_other_host,
              url_www_host, url_no_scheme, url_words}

\* C10: for a well-formed github.com URL with at least 2 path segments the
\* parser returns the first segment as owner and the second, less a trailing
\* .git, as name (the repository-info request is made for them); for any
\* other string it fails with InvalidUrlFormat and fetchGitHubRepository
\* makes no upstream request.
C10_ParserTable ==
    /\ githubUrl \in {e.url : e \in WellFormedRepositoryUrls} \cup OtherUrls
    /\ \A k \in 1..Len(outcome) :
         /\ \A e \in WellFormedRepositoryUrls :
                e.url = githubUrl
                => /\ k \in Requested
                   /\ Len(fetched) >= k
                   /\ fetched[k] = api_repos \o e.owner \o <<"/">> \o e.name
         /\ githubUrl \in OtherUrls
                => /\ outcome[k].result.thrown
                   /\ ErrorName(outcome[k].result.error) = "InvalidUrlFormat"
                   /\ fetched = <<>>

\* The parser has been given a URL with a doubled .git suffix and the
\* request went out for the name less one .git.
C10_Witness ==
    /\ githubUrl = url_o_r_git_git
    /\ Len(outcome) > 0
    /\ fetched[1] = api_repos \o <<"o", "/", "r", ".", "g", "i", "t">>

\* The errors the two fetch stages of generateReadme can fail with.
RepoStageErrors ==
    {fetchRepositoryInfo(d).error :
        d \in {e \in HandlerRepoDeliveries : fetchRepositoryInfo(e).thrown}}

TreeStageErrors ==
    {fetchFileTree(d).result.error :
        d \in {e \in HandlerTreeDeliveries : fetchFileTree(e).result.thrown}}

\* The errors a stage of generateReadme can fail with, for the input given.
StageErrors(stage, input) ==
    CASE stage = "parse" -> {parseGitHubUrlH(input).error}
      [] stage = "repo" -> RepoStageErrors
      [] stage = "tree" -> TreeStageErrors

\* C1: when the URL parsing, the repository fetch or the tree fetch of a
\* generateReadme request fails, the request fails with that error, and the
\* store holds the records it held: the failing step inserts nothing and the
\* request has inserted nothing before.
C1_FailureLeavesStore ==
    [][\A r \in Requests :
           (req[r].pc # "failed" /\ req'[r].pc = "failed")
           => /\ req'[r].error \in StageErrors(req'[r].stage, req'[r].input)
              /\ store' = store
              /\ dbLog' = dbLog
              /\ \A i \in 1..Len(dbLog) : dbLog[i].by # r]_vars

\* A request has failed at its tree fetch while the store held a record.
C1_Witness ==
    \E r \in Requests :
        /\ req[r].pc = "failed"
        /\ req[r].stage = "tree"
        /\ store # {}

\* The branch named on the Default Branch line of a markdown document.
DefaultBranchLine(markdown) ==
    markdown[CHOOSE i \in 1..Len(markdown) :
                 markdown[i].line = "- **Default Branch**: "].text

\* C2: a successful generateReadme request makes exactly two upstream
\* requests, the repository-info request and then the recursive-tree
\* request; the tree request is made only once the repository-info response
\* has arrived, and names the default branch of that response.
C2_TwoRequestsInOrder ==
    \A r \in Requests :
        LET parsed == parseGitHubUrlH(req[r].input).value
            repoUrl == api_repos \o parsed.owner \o <<"/">> \o parsed.repo
            treeUrl(branch) == repoUrl \o git_trees \o branch \o recursive_1
        IN  /\ req[r].pc = "awaitRepo" => req[r].fetched = <<repoUrl>>
            /\ req[r].pc = "awaitTree"
                   => req[r].fetched = <<repoUrl, treeUrl(req[r].repoInfo.default_branch)>>
            /\ req[r].pc = "awaitInsert"
                   => req[r].fetched =
                        <<repoUrl, treeUrl(DefaultBranchLine(req[r].values.markdown_content))>>
            /\ req[r].pc = "done"
                   => req[r].fetched =
                        <<repoUrl, treeUrl(DefaultBranchLine(req[r].response.markdown_content))>>

\* A request has succeeded for a repository whose default branch is dev.
C2_Witness ==
    \E r \in Requests :
        /\ req[r].pc = "done"
        /\ Len(req[r].fetched) = 2
        /\ req[r].fetched[2] = treeApiUrl(<<"o">>, <<"r", ".", "g", "i", "t">>, dev)

\* The last completed call of the store handlers, after a step.
Completed(name) == outcome' /= outcome /\ outcome' /= <<>> /\ outcome'[1].call = name

\* What delete-by-id owes for identifier id on the table rows: the result and
\* the table afterwards.
DeletedById(rows, id, result, after) ==
    IF \E row \in rows : row.id = id
    THEN /\ ~result.thrown
         /\ after = {row \in rows : row.id /= id}
    ELSE /\ result.thrown
         /\ result.error = notFound(id)
         /\ after = rows

\* C11: delete-by-id on an identifier that is not in the store fails with
\* NotFound and leaves the store unchanged; on an identifier that is in the
\* store it succeeds, removes exactly that record, and leaves every other
\* record present and unmodified.  Stated of every deleteReadme the source
\* holds.
C11_DeleteById ==
    [][Completed("deleteReadme")
         => DeletedById(store, outcome'[1].id, outcome'[1].result, store')]_vars

\* The same, of the deleteReadme of handlers/list_readmes.ts alone.
DeleteReturningContract ==
    [][(Completed("deleteReadme") /\ outcome'[1].source = "list_readmes.ts")
         => DeletedById(store, outcome'[1].id, outcome'[1].result, store')]_vars

\* A listReadmes call has returned and no write fell between its queries.
ListedQuietly ==
    /\ req.pc = "done"
    /\ req.selectedFrom = req.countedFrom

\* page is positions offset+1 .. offset+limit of a newest-created-first order
\* of rows, in the columns of the listing: the k-th item is a stored row
\* without its markdown and file-structure fields, fewer than offset+k rows
\* are newer than it and at least offset+k rows are as new.
NewestFirstPage(page, rows, limit, offset) ==
    /\ Len(page) = (IF Cardinality(rows) <= offset THEN 0
                    ELSE Min(limit, Cardinality(rows) - offset))
    /\ \A k \in 1..Len(page) :
          /\ DOMAIN page[k] = {"id", "github_url", "repository_name",
                               "repository_description", "created_at"}
          /\ \E row \in rows :
                /\ row.id = page[k].id
                /\ row.github_url = page[k].github_url
                /\ row.repository_name = page[k].repository_name
                /\ row.repository_description = page[k].repository_description
                /\ row.created_at = page[k].created_at
          /\ Cardinality({row \in rows : row.created_at > page[k].created_at})
                < offset + k
          /\ Cardinality({row \in rows : row.created_at >= page[k].created_at})
                >= offset + k
    /\ \A k, l \in 1..Len(page) :
          /\ k < l => page[k].created_at >= page[l].created_at
          /\ k /= l => page[k].id /= page[l].id

\* C12: with no concurrent writes, listReadmes(limit, offset) returns the
\* records ordered newest-created first, restricted to positions offset+1 ..
\* offset+limit of that order (empty when offset is at or beyond the record
\* count), without the markdown and file-structure fields, together with
\* total = the number of all stored records; with 5 records, limit 2 and
\* offset 2 it returns two records, the 3rd and 4th of that order, and total 5.
C12_ListPaginated ==
    ListedQuietly =>
        LET rows == req.selectedFrom
            input == req.input
            result == req.result
        IN  /\ NewestFirstPage(result.readmes, rows, input.limit, input.offset)
            /\ result.total = Cardinality(rows)
            /\ result.limit = input.limit
            /\ result.offset = input.offset
            /\ Cardinality(rows) <= input.offset => result.readmes = <<>>
            /\ (Cardinality(rows) = 5 /\ input = [limit |-> 2, offset |-> 2])
                  => /\ Len(result.readmes) = 2
                     /\ result.total = 5
                     /\ \A k \in 1..2 :
                           Cardinality({row \in rows :
                               row.created_at > result.readmes[k].created_at}) <= k + 1

\* Five records created at five different times are listed with limit 2 and
\* offset 2: the page is the 3rd and the 4th most recently created.
C12_Witness ==
    /\ ListedQuietly
    /\ Cardinality(req.selectedFrom) = 5
    /\ \A r1, r2 \in req.selectedFrom : r1.id /= r2.id => r1.created_at /= r2.created_at
    /\ req.input = [limit |-> 2, offset |-> 2]
    /\ Len(req.result.readmes) = 2
    /\ req.result.readmes[1].id = 3
    /\ req.result.readmes[2].id = 2
    /\ req.result.total = 5

\* A page read beyond the last record is empty while total counts all records.
ListedBeyondTotal ==
    /\ ListedQuietly
    /\ req.selectedFrom /= {}
    /\ Cardinality(req.selectedFrom) <= req.input.offset
    /\ req.result.readmes = <<>>
    /\ req.result.total = Cardinality(req.selectedFrom)

\* A write between the two queries: total counts a record the page query
\* could not have seen.
ListedAcrossWrite ==
    /\ req.pc = "done"
    /\ req.selectedFrom /= req.countedFrom
    /\ req.result.total /= Cardinality(req.selectedFrom)

\* C13: getReadme on a stored identifier returns that record with URL, name,
\* description (null kept as null), markdown, serialized file structure and
\* both timestamps exactly as stored; on an identifier not in the store
\* (never created, or already deleted) it fails with NotFound; it never
\* changes the store.
C13_GetById ==
    [][Completed("getReadme") =>
         LET id == outcome'[1].id
             result == outcome'[1].result
         IN  /\ store' = store
             /\ IF \E row \in store : row.id = id
                THEN /\ ~result.thrown
                     /\ \E row \in store :
                           /\ row.id = id
                           /\ result.value.id = id
                           /\ result.value.github_url = row.github_url
                           /\ result.value.repository_name = row.repository_name
                           /\ result.value.repository_description
                                 = row.repository_description
                           /\ result.value.markdown_content = row.markdown_content
                           /\ result.value.file_structure = row.file_structure
                           /\ result.value.created_at = row.created_at
                           /\ result.value.updated_at = row.updated_at
                ELSE /\ result.thrown
                     /\ result.error = notFound(id)]_vars

\* getReadme has returned a stored record whose description is null, and
\* other records are stored beside it.
C13_Witness ==
    /\ outcome /= <<>>
    /\ outcome[1].call = "getReadme"
    /\ ~outcome[1].result.thrown
    /\ outcome[1].result.value.repository_description = Null
    /\ outcome[1].result.value \in store
    /\ Cardinality(store) >= 2

\* getReadme has failed with NotFound for an identifier that was deleted.
GotDeleted ==
    /\ outcome /= <<>>
    /\ outcome[1].call = "getReadme"
    /\ outcome[1].id < nextId
    /\ outcome[1].result = Thrown(notFound(outcome[1].id))

\* getReadme has failed with NotFound for an identifier never created.
GotNeverCreated ==
    /\ outcome /= <<>>
    /\ outcome[1].call = "getReadme"
    /\ outcome[1].id = nextId
    /\ outcome[1].result = Thrown(notFound(outcome[1].id))

\* The lines that open the sections of generateMarkdownReadme, in the order
\* the claim gives: Header, Description, Badges, Repository Information,
\* Project Structure, Technical Overview, Getting Started/Contributing,
\* Footer.
SectionOpenings ==
    <<"# ", "## Description", "## Badges", "## Repository Information",
      "## Project Structure", "## Technical Overview", "## Getting Started", "---">>

IsOpening(l) ==
    "line" \in DOMAIN l /\ \E k \in 1..Len(SectionOpenings) : l.line = SectionOpenings[k]

\* The openings of a text, in the order they occur in it.
OpeningsOf(text) ==
    LET openings == SelectSeq(text, IsOpening)
    IN  [k \in 1..Len(openings) |-> openings[k].line]

HasLine(text, fixed) ==
    \E k \in 1..Len(text) : "line" \in DOMAIN text[k] /\ text[k].line = fixed

HasLanguageBadge(text) ==
    \E k \in 1..Len(text) :
        /\ "badges" \in DOMAIN text[k]
        /\ \E b \in 1..Len(text[k].badges) : text[k].badges[b].badge = "Language"

LanguageInTable(text) ==
    LET k == CHOOSE k \in 1..Len(text) :
                 "line" \in DOMAIN text[k] /\ text[k].line = "| **Primary Language** | "
    IN  text[k].text

\* The sections of the text of a call are as the claim rules, when the
\* description and the language count as present or not as given.
SectionsAsRuled(c, descriptionPresent, languagePresent) ==
    LET text == c.result
        emitted == [k \in 1..Len(SectionOpenings) |->
                       CASE SectionOpenings[k] = "## Description" -> descriptionPresent
                         [] SectionOpenings[k] = "## Technical Overview" ->
                                Len(c.fileTree) > 0
                         [] OTHER -> TRUE]
        expected == LET kept == SelectSeq([k \in 1..Len(SectionOpenings) |-> k],
                                          LAMBDA k : emitted[k])
                    IN  [i \in 1..Len(kept) |-> SectionOpenings[kept[i]]]
    IN  /\ OpeningsOf(text) = expected
        /\ HasLanguageBadge(text) <=> languagePresent
        /\ LanguageInTable(text) = (IF languagePresent THEN c.repoInfo.language.s
                                    ELSE Not_specified)
        /\ HasLine(text, "*No file structure available*") <=> Len(c.fileTree) = 0

Rendered(k) == k \in 1..Len(outcome) /\ outcome[k].call = "generateMarkdownReadme"

\* C14 (as stated): the sections come in the fixed order Header,
\* Description, Badges, Repository Information, Project Structure,
\* Technical Overview, Getting Started/Contributing, Footer; Description is
\* there iff the description is present (not null), the language badge iff
\* the language is present (not null), the table showing the language or
\* 'Not specified'; Technical Overview iff the tree is non-empty; Project
\* Structure always, with the placeholder iff the tree is empty.  The code
\* does not do this for an empty description or language.
C14_SectionsWhenNotNull ==
    \A k \in 1..Len(outcome) : Rendered(k) =>
        SectionsAsRuled(outcome[k], outcome[k].repoInfo.description /= Null,
                        outcome[k].repoInfo.language /= Null)

\* C14 (amended): the same, where the description and the language count as
\* present when they are neither null nor the empty string.
C14_SectionsWhenNotEmpty ==
    \A k \in 1..Len(outcome) : Rendered(k) =>
        SectionsAsRuled(outcome[k], ~falsy(outcome[k].repoInfo.description),
                        ~falsy(outcome[k].repoInfo.language))

\* A text was rendered for a repository with an empty description and an
\* empty language and an empty tree: it has neither Description nor
\* Technical Overview.
C14_Witness ==
    \E k \in 1..Len(outcome) :
        /\ Rendered(k)
        /\ outcome[k].repoInfo.description = Str(<<>>)
        /\ outcome[k].repoInfo.language = Str(<<>>)
        /\ outcome[k].fileTree = <<>>
        /\ OpeningsOf(outcome[k].result)
              = <<"# ", "## Badges", "## Repository Information",
                  "## Project Structure", "## Getting Started", "---">>

\* A text with all eight sections was rendered.
RenderedAllSections ==
    \E k \in 1..Len(outcome) :
        /\ Rendered(k)
        /\ OpeningsOf(outcome[k].result) = SectionOpenings
        /\ HasLanguageBadge(outcome[k].result)

\* A text was rendered for a null language: no badge, 'Not specified'.
RenderedNullLanguage ==
    \E k \in 1..Len(outcome) :
        /\ Rendered(k)
        /\ outcome[k].repoInfo.language = Null
        /\ ~HasLanguageBadge(outcome[k].result)
        /\ LanguageInTable(outcome[k].result) = Not_specified

\* The nodes of a tree depth first, in the order of each children sequence:
\* each with whether it is the last of its siblings and, root first, whether
\* each of its ancestors is the last of its own siblings.
RECURSIVE DepthFirst(_, _)
DepthFirst(nodes, ancestorsLast) ==
    LET from[k \in 0..Len(nodes)] ==
            IF k = 0 THEN <<>>
            ELSE from[k - 1]
                 \o <<[name |-> nodes[k].name, last |-> k = Len(nodes),
                       ancestorsLast |-> ancestorsLast]>>
                 \o (IF "children" \in DOMAIN nodes[k]
                     THEN DepthFirst(nodes[k].children,
                                     Append(ancestorsLast, k = Len(nodes)))
                     ELSE <<>>)
    IN  from[Len(nodes)]

\* The lines of the tree text in a rendered text: those drawn for nodes.
TreeLinesOf(text) == SelectSeq(text, LAMBDA l : "connector" \in DOMAIN l)

\* C15: the rendered tree text lists the nodes depth-first in the order of
\* each children sequence, one line per node; in every sibling list each
\* node but the last has the branch connector and the last has the corner
\* connector; the prefix of a node's descendants is the node's own prefix
\* extended by a vertical continuation when the node is not the last
\* sibling and by blank indentation when it is.
C15_TreeText ==
    \A c \in 1..Len(outcome) : Rendered(c) =>
        LET lines == TreeLinesOf(outcome[c].result)
            nodes == DepthFirst(outcome[c].fileTree, <<>>)
        IN  /\ Len(lines) = Len(nodes)
            /\ \A i \in 1..Len(lines) :
                  /\ lines[i].name = nodes[i].name
                  /\ lines[i].connector = (IF nodes[i].last THEN "+-- " ELSE "|-- ")
                  /\ lines[i].prefix =
                        [d \in 1..Len(nodes[i].ancestorsLast) |->
                            IF nodes[i].ancestorsLast[d] THEN "    " ELSE "|   "]

\* The tree of the tests was rendered: src, not the last of the root, has
\* the branch connector and hands a vertical continuation down; utils, the
\* last in src, has the corner connector and hands blank indentation down.
C15_Witness ==
    \E c \in 1..Len(outcome) :
        /\ Rendered(c)
        /\ outcome[c].fileTree = testFileTree
        /\ LET lines == TreeLinesOf(outcome[c].result)
           IN  /\ [i \in 1..Len(lines) |-> lines[i].connector]
                     = <<"|-- ", "|-- ", "+-- ", "+-- ", "|-- ", "+-- ">>
               /\ [i \in 1..Len(lines) |-> lines[i].prefix]
                     = << <<>>, <<"|   ">>, <<"|   ">>, <<"|   ", "    ">>, <<>>, <<>> >>
               /\ lines[4].name = <<"h", "e", "l", "p", "e", "r", ".", "t", "s">>
               /\ lines[6].name = README_md

\* The tree that is one chain was rendered: every line has the corner
\* connector and blank indentation only.
RenderedChain ==
    \E c \in 1..Len(outcome) :
        /\ Rendered(c)
        /\ outcome[c].fileTree = deepFileTree
        /\ LET lines == TreeLinesOf(outcome[c].result)
           IN  /\ Len(lines) = 3
               /\ lines[3].connector = "+-- "
               /\ lines[3].prefix = <<"    ", "    ">>

\* The line of the footer that holds the generation time.
IsTimestampLine(l) ==
    "line" \in DOMAIN l /\ l.line = "*This README was automatically generated on *"

\* Two texts are the same but for the generation-timestamp line.
SameButTimestamp(t1, t2) ==
    /\ Len(t1) = Len(t2)
    /\ \A i \in 1..Len(t1) :
          \/ t1[i] = t2[i]
          \/ IsTimestampLine(t1[i]) /\ IsTimestampLine(t2[i])

\* C16: two calls of generateMarkdownReadme with the same metadata and the
\* same tree return the same text except for the generation-timestamp line
\* of the footer, whatever the table holds, whatever calls came before and
\* whenever they are made; and each text has exactly one such line.
C16_PureButTimestamp ==
    \A i, j \in 1..Len(outcome) :
        (/\ Rendered(i) /\ Rendered(j)
         /\ outcome[i].repoInfo = outcome[j].repoInfo
         /\ outcome[i].fileTree = outcome[j].fileTree)
        => /\ SameButTimestamp(outcome[i].result, outcome[j].result)
           /\ Len(SelectSeq(outcome[i].result, IsTimestampLine)) = 1

\* Two calls on the same input, made at different clock readings and with
\* different rows in the table: the texts differ, in the timestamp line only.
C16_Witness ==
    \E i, j \in 1..Len(outcome) :
        /\ i < j
        /\ Rendered(i) /\ Rendered(j)
        /\ outcome[i].repoInfo = outcome[j].repoInfo
        /\ outcome[i].fileTree = outcome[j].fileTree
        /\ outcome[i].date /= outcome[j].date
        /\ outcome[i].rows /= outcome[j].rows
        /\ outcome[i].result /= outcome[j].result
        /\ SameButTimestamp(outcome[i].result, outcome[j].result)

\* The record is the one answered: identifier, URL, name, description,
\* Markdown text and creation timestamp.
Answered(row, response) ==
    /\ row.id = response.id
    /\ row.github_url = response.github_url
    /\ row.repository_name = response.repository_name
    /\ row.repository_description = response.repository_description
    /\ row.markdown_content = response.markdown_content
    /\ row.created_at = response.created_at

\* The file-structure field is the serialization of the tree drawn in the
\* Markdown text: the node lines of the text are the nodes of the tree, depth
\* first.
SerializesRenderedTree(row) ==
    \E tree \in {row.file_structure.json} :
        /\ row.file_structure = JSONstringify(tree)
        /\ LET lines == TreeLinesOf(row.markdown_content)
               nodes == DepthFirst(tree, <<>>)
           IN  /\ Len(lines) = Len(nodes)
               /\ \A i \in 1..Len(lines) :
                     /\ lines[i].name = nodes[i].name
                     /\ Len(lines[i].prefix) = Len(nodes[i].ancestorsLast)

\* C17: a generateReadme call that succeeds leaves exactly one record more
\* in the store: the step that answers it adds one record and no other step
\* of the call changes the store; the record's identifier, URL (the URL as
\* submitted), name, description, Markdown text and creation timestamp are
\* the values answered, and its file-structure field is the serialization
\* of the tree that was rendered.
C17_SuccessStoresOneRecord ==
    [][\A r \in Requests :
         /\ (req[r].pc /= "done" /\ req'[r].pc = "done") =>
               \E row \in store' :
                  /\ row \notin store
                  /\ \A other \in store : other.id /= row.id
                  /\ store' = store \cup {row}
                  /\ Cardinality(store') = Cardinality(store) + 1
                  /\ Answered(row, req'[r].response)
                  /\ row.github_url = req'[r].input
                  /\ SerializesRenderedTree(row)
         /\ (req'[r] /= req[r] /\ req'[r].pc \notin {"done", "failed"}) => store' = store
      ]_vars

\* A request for the URL ending in .git has succeeded: the record stored
\* has the URL as submitted and the serialization of a tree with nodes.
C17_Witness ==
    \E r \in Requests :
        /\ req[r].pc = "done"
        /\ req[r].input = url_o_r_git
        /\ \E row \in store :
              /\ Answered(row, req[r].response)
              /\ row.github_url = url_o_r_git
              /\ Len(row.file_structure.json) > 0
              /\ SerializesRenderedTree(row)
        /\ Cardinality(store) = 2

\* The upstream requests a generateReadme call has made so far.
RequestsOf(r) == IF "fetched" \in DOMAIN req[r] THEN req[r].fetched ELSE <<>>

IsTreeRequest(url) ==
    \E i \in 1..(Len(url) - Len(git_trees) + 1) :
        SubSeq(url, i, i + Len(git_trees) - 1) = git_trees

\* C18: within one generateReadme call no upstream endpoint is requested
\* more than once: the requests are the repository-info one and then, at
\* most, the tree one; a call that failed at the repository-info request
\* has made that request only, a call that failed at the tree request has
\* made the two, and a call that has failed makes no step more.
C18_NoRetry ==
    [][\A r \in Requests :
         /\ req[r].pc = "failed" => req'[r] = req[r]
         /\ LET made == [k \in 1..Len(req'[r].fetched) |-> req'[r].fetched[k]]
            IN  req'[r].pc /= "idle" =>
                  /\ Len(made) <= 2
                  /\ Len(made) >= 1 => ~IsTreeRequest(made[1])
                  /\ Len(made) = 2 => IsTreeRequest(made[2])
                  /\ req'[r].pc = "failed" =>
                        Len(made) = (CASE req'[r].stage = "parse" -> 0
                                       [] req'[r].stage = "repo" -> 1
                                       [] req'[r].stage = "tree" -> 2)
      ]_vars

\* One call has failed at the repository-info request, having made that
\* request only, and another at the tree request, having made the two.
C18_Witness ==
    \E r1, r2 \in Requests :
        /\ req[r1].pc = "failed" /\ req[r1].stage = "repo"
        /\ Len(RequestsOf(r1)) = 1 /\ ~IsTreeRequest(RequestsOf(r1)[1])
        /\ req[r2].pc = "failed" /\ req[r2].stage = "tree"
        /\ Len(RequestsOf(r2)) = 2 /\ IsTreeRequest(RequestsOf(r2)[2])

\* The named error an error of the handler stands for: a failed tree fetch
\* is counted as the upstream error that carries the status.
HandlerErrorName(error) ==
    CASE error.message = "Repository not found" -> "RepositoryNotFound"
      [] error.message = "GitHub API error" -> "UpstreamApiError"
      [] error.message = "Failed to fetch file tree" -> "UpstreamApiError"
      [] error.message = "fetch failed" -> "NetworkError"
      [] OTHER -> "none"

\* The failure responses that make the repository-info request, or the tree
\* request, fail with the error given.
RepoFailuresGiving(error) ==
    {d \in HandlerFailures : "status" \in DOMAIN d
                             /\ fetchRepositoryInfo(d) = Thrown(error)}

TreeFailuresGiving(error) ==
    {d \in HandlerFailures : "status" \in DOMAIN d
                             /\ fetchFileTree(d).result = Thrown(error)}

FailuresOf(r) ==
    IF req[r].pc = "failed" /\ req[r].stage = "repo"
    THEN RepoFailuresGiving(req[r].error)
    ELSE IF req[r].pc = "failed" /\ req[r].stage = "tree"
    THEN TreeFailuresGiving(req[r].error)
    ELSE {}

\* C19 (as stated): a failure status of the repository-info request and the
\* same status of the tree request are reported as the same named error, by
\* the table 404 RepositoryNotFound, 403 with a rate-limit indicator
\* RateLimitExceeded, other 403 AccessForbidden, 401 InvalidCredential, any
\* other non-2xx UpstreamApiError with the status.  The handler does not do
\* this.
C19_SameTableOnBothRequests ==
    \A r \in Requests : \A d \in FailuresOf(r) :
        /\ HandlerErrorName(req[r].error) = Classified(d)
        /\ Classified(d) = "UpstreamApiError" => req[r].error.status = d.status

\* C19 (amended): the repository-info request fails with RepositoryNotFound
\* on 404 and with the upstream error carrying the status on any other
\* non-2xx; the tree request fails with the tree-fetch error carrying the
\* status on every non-2xx, 404 included; no body is read, so no status is
\* reported as RateLimitExceeded, AccessForbidden or InvalidCredential.
C19_HandlerTable ==
    \A r \in Requests : \A d \in FailuresOf(r) :
        IF req[r].stage = "repo"
        THEN IF d.status = 404
             THEN req[r].error = [message |-> "Repository not found"]
             ELSE req[r].error = [message |-> "GitHub API error", status |-> d.status]
        ELSE req[r].error = [message |-> "Failed to fetch file tree",
                             status |-> d.status]

\* A 403 with a rate-limit message was answered to the repository-info
\* request of one call and a 404 to the tree request of another: the first
\* failed with the upstream error 403, the second with the tree-fetch error
\* 404.
C19_Witness ==
    \E r1, r2 \in Requests :
        /\ req[r1].pc = "failed" /\ req[r1].stage = "repo"
        /\ req[r1].error = [message |-> "GitHub API error", status |-> 403]
        /\ \E d \in FailuresOf(r1) : RateLimitIndicated(d)
        /\ req[r2].pc = "failed" /\ req[r2].stage = "tree"
        /\ req[r2].error = [message |-> "Failed to fetch file tree", status |-> 404]

\* The generateReadme calls that were given the URL whose second path
\* segment is r.git and have made their two upstream requests.
FetchedForDotGit ==
    {r \in Requests : /\ req[r].pc /= "idle"
                      /\ req[r].input = url_o_r_git
                      /\ Len(req[r].fetched) = 2}

\* C20 (as stated): when the second path segment of the submitted URL ends
\* in .git, both upstream requests are addressed to the repository name
\* with that suffix removed.  The handler does not do this.
C20_SuffixRemoved ==
    \A r \in FetchedForDotGit :
        /\ req[r].fetched[1] = repoApiUrl(<<"o">>, <<"r">>)
        /\ \E branch \in {main, dev} :
              req[r].fetched[2] = treeApiUrl(<<"o">>, <<"r">>, branch)

\* C20 (amended): both upstream requests are addressed to the second path
\* segment as it was submitted, the .git suffix included.
C20_SuffixKept ==
    \A r \in FetchedForDotGit :
        /\ req[r].fetched[1] = repoApiUrl(<<"o">>, <<"r", ".", "g", "i", "t">>)
        /\ \E branch \in {main, dev} :
              req[r].fetched[2]
                  = treeApiUrl(<<"o">>, <<"r", ".", "g", "i", "t">>, branch)

\* A call given https://github.com/o/r.git has succeeded after requesting
\* repos/o/r.git and repos/o/r.git/git/trees/dev.
C20_Witness ==
    \E r \in FetchedForDotGit :
        /\ req[r].pc = "done"
        /\ req[r].fetched
              = <<repoApiUrl(<<"o">>, <<"r", ".", "g", "i", "t">>),
                  treeApiUrl(<<"o">>, <<"r", ".", "g", "i", "t">>, dev)>>

\* The steps of one generateReadme call.
StepOf(r) ==
    GenerateReadme(r) \/ RepoResponse(r) \/ TreeResponse(r) \/ InsertExecuted(r)

\* Two calls for one URL have both answered.
BothDone(r1, r2) ==
    /\ r1 /= r2
    /\ req[r1].pc = "done"
    /\ req[r2].pc = "done"
    /\ req[r1].input = req[r2].input

\* The record a call answered with is in the store as it was answered.
KeepsItsRecord(r) ==
    \E row \in store :
        /\ Answered(row, req[r].response)
        /\ Cardinality({other \in store : other.id = row.id}) = 1
        /\ \E k \in 1..Len(dbLog) :
              dbLog[k] = [op |-> "insert", by |-> r, id |-> row.id]

C21_State ==
    /\ \A r \in Requests :
          req[r].pc \in {"idle", "awaitRepo", "awaitTree", "awaitInsert"}
              => ENABLED StepOf(r)
    /\ \A r1, r2 \in Requests :
          BothDone(r1, r2) =>
             /\ Len(req[r1].fetched) = 2
             /\ Len(req[r2].fetched) = 2
             /\ ~IsTreeRequest(req[r1].fetched[1]) /\ IsTreeRequest(req[r1].fetched[2])
             /\ ~IsTreeRequest(req[r2].fetched[1]) /\ IsTreeRequest(req[r2].fetched[2])
             /\ req[r1].response.id /= req[r2].response.id
             /\ KeepsItsRecord(r1)
             /\ KeepsItsRecord(r2)
             /\ Cardinality({row \in store : row.github_url = req[r1].input}) >= 2

C21_Step ==
    /\ store \subseteq store'
    /\ \A r, other \in Requests :
          (req'[r] /= req[r] /\ other /= r) => req'[other] = req[other]

\* C21: generateReadme calls are independent.  A call that has not finished
\* can always take its next step, whatever the other call has done; a step
\* of one call changes nothing of the other call and no stored record; and
\* when two calls for the same URL have both succeeded, each has made its
\* own repository-info and tree requests, and the store holds two records
\* with distinct identifiers, each as its call answered it.
C21_Independent == []C21_State /\ [][C21_Step]_vars

\* Two calls for https://github.com/o/r.git have both succeeded, their
\* inserts at two readings of the database clock.
C21_Witness ==
    /\ BothDone(1, 2)
    /\ req[1].input = url_o_r_git
    /\ Cardinality(store) = 2
    /\ Len(dbLog) = 2
    /\ dbLog[1].by /= dbLog[2].by
    /\ \E r \in Requests : req[r].response.id = 1 /\ req[r].response.created_at = 0
    /\ \E r \in Requests : req[r].response.id = 2 /\ req[r].response.created_at = 1

\* Every node of the sibling sequence, and below it, is placed as its path
\* says: parentPath is <<>> for the root sequence.
RECURSIVE PlacedByPath(_, _, _)
PlacedByPath(nodes, isRoot, parentPath) ==
    \A i \in 1..Len(nodes) :
        /\ nodes[i].path = IF isRoot THEN nodes[i].name
                           ELSE parentPath \o <<"/">> \o nodes[i].name
        /\ nodes[i].type \in {"file", "directory"}
        /\ nodes[i].type = "file" => "children" \notin DOMAIN nodes[i]
        /\ "children" \in DOMAIN nodes[i] =>
              /\ nodes[i].type = "directory"
              /\ PlacedByPath(nodes[i].children, FALSE, nodes[i].path)

\* C22: in every tree a reconstruction returns (buildFileTree's and
\* fetchFileTree's), a root node's path is its name, a node below the root
\* has the path of its parent, a slash and its name, every node that has
\* children is a directory node, and a file node has no children field.
C22_NodesPlacedByPath ==
    \A k \in Reconstructed : PlacedByPath(outcome[k].result.value, TRUE, <<>>)

\* A reconstruction has twice returned a tree of three levels: helper.ts
\* below utils below src.
C22_Witness ==
    /\ \E k \in Reconstructed :
          /\ \E n \in NodesOf(outcome[k].result.value) : n.path = src_utils_helper_ts
          /\ \E n \in NodesOf(outcome[k].result.value) :
                n.path = src_utils /\ Len(n.children) = 1
    /\ Len(outcome) = 2

\* A sibling list is in ascending path order, whatever the kinds.
AscendingByPath(siblings) ==
    \A i, j \in 1..Len(siblings) :
        i < j => localeCompare(siblings[i].path, siblings[j].path) < 0

NamesOf(siblings) == [i \in 1..Len(siblings) |-> siblings[i].name]

\* The tree lines of a Markdown text draw the tree: one line per node, depth
\* first in the order of each sibling list, the corner connector on the last
\* node of a list and on no other, and below a node a prefix part more:
\* blank below a last sibling, a vertical bar below any other.
DrawnAsOrdered(markdown, tree) ==
    LET lines == TreeLinesOf(markdown)
        nodes == DepthFirst(tree, <<>>)
    IN  /\ Len(lines) = Len(nodes)
        /\ \A i \in 1..Len(lines) :
              /\ lines[i].name = nodes[i].name
              /\ lines[i].connector = IF nodes[i].last THEN "+-- " ELSE "|-- "
              /\ lines[i].prefix =
                    [d \in 1..Len(nodes[i].ancestorsLast) |->
                        IF nodes[i].ancestorsLast[d] THEN "    " ELSE "|   "]

\* The stored records of the listing of the test of a deeper structure.
StoredComplex == {row \in store : CountNodes(row.file_structure.json) = Len(complexTreeResponse)}

\* C23: in the tree generateReadme renders and saves, every sibling list is
\* in ascending path order (the order of the sort of fetchFileTree), files
\* and directories mixed, and is drawn in that order with the corner
\* connector on its last node only; for the listing of the test the root is
\* README.md, src, tests and the children of src are components, index.ts,
\* utils.
C23_SiblingsByPathOnly ==
    \A row \in store :
        /\ \A s \in SiblingSequences(row.file_structure.json) : AscendingByPath(s)
        /\ DrawnAsOrdered(row.markdown_content, row.file_structure.json)
        /\ row \in StoredComplex =>
              /\ NamesOf(row.file_structure.json) = <<README_md, src, tests>>
              /\ \E n \in NodesOf(row.file_structure.json) :
                    /\ n.path = src
                    /\ NamesOf(n.children) = <<components, index_ts, utils>>
                    /\ n.children[2].type = "file"
                    /\ n.children[3].type = "directory"

\* A record of the listing of the test has been saved: index.ts, a file, is
\* drawn between the directories components and utils.
C23_Witness ==
    \E row \in StoredComplex :
        \E k \in 2..(Len(row.markdown_content) - 1) :
            /\ "connector" \in DOMAIN row.markdown_content[k]
            /\ row.markdown_content[k].name = index_ts
            /\ row.markdown_content[k].connector = "|-- "
            /\ row.markdown_content[k].prefix = <<"|   ">>
            /\ row.markdown_content[k - 1].name = Input_tsx
            /\ row.markdown_content[k - 1].connector = "+-- "
            /\ row.markdown_content[k + 1].name = utils
            /\ row.markdown_content[k + 1].connector = "+-- "

Max(a, b) == IF a >= b THEN a ELSE b

\* The calls whose listing was above the ceiling, so that the reduction
\* applied.
Reduced == {k \in Built : Len(ListingGiven(k)) > MAX_FILES}

\* The entries of a listing that are no well-known file and have more than
\* two path segments, in the order of the listing.
DeepOf(listing) ==
    SelectSeq(listing, LAMBDA item : /\ item.path \notin importantPaths
                                     /\ Len(split(item.path, "/")) > 2)

ShallowOf(listing) ==
    SelectSeq(listing, LAMBDA item : \/ item.path \in importantPaths
                                     \/ Len(split(item.path, "/")) <= 2)

\* C24 (as stated): when the reduction applies and k well-known or shallow
\* entries are retained, the other entries retained are the first
\* max(0, ceiling - k) entries of more than two segments, in the order of
\* the listing; with k at or above the ceiling none is.  The code cuts with
\* slice(0, ceiling - k), whose end counts from the end of the array when it
\* is negative.
C24_DeepCutToCeiling ==
    \A k \in Reduced :
        LET kept == Len(ShallowOf(outcome[k].filteredTree))
            deep == DeepOf(ListingGiven(k))
        IN  DeepOf(outcome[k].filteredTree) =
                SubSeq(deep, 1, Min(Len(deep), Max(0, MAX_FILES - kept)))

\* What the code does: below the ceiling the first ceiling - k of the deep
\* entries are retained, at it none, above it all but the last k - ceiling.
C24_DeepCutBySlice ==
    \A k \in Reduced :
        LET kept == Len(ShallowOf(outcome[k].filteredTree))
            deep == DeepOf(ListingGiven(k))
        IN  /\ ShallowOf(outcome[k].filteredTree) = ShallowOf(ListingGiven(k))
            /\ DeepOf(outcome[k].filteredTree) =
                  IF kept <= MAX_FILES
                  THEN SubSeq(deep, 1, Min(Len(deep), MAX_FILES - kept))
                  ELSE SubSeq(deep, 1, Max(0, Len(deep) - (kept - MAX_FILES)))

\* A listing with more shallow entries than the ceiling and two deep ones
\* has been reduced: the first deep entry is retained.
C24_Witness ==
    \E k \in Reduced :
        /\ Len(ShallowOf(ListingGiven(k))) = MAX_FILES + 1
        /\ Len(DeepOf(ListingGiven(k))) = 2
        /\ DeepOf(outcome[k].filteredTree) = <<DeepOf(ListingGiven(k))[1]>>

\* The nodes of a tree in depth-first order: a node, then what is below it,
\* then its next sibling.
RECURSIVE NodesDepthFirst(_)
NodesDepthFirst(nodes) ==
    IF Len(nodes) = 0 THEN <<>>
    ELSE <<Head(nodes)>>
         \o (IF "children" \in DOMAIN Head(nodes)
             THEN NodesDepthFirst(Head(nodes).children) ELSE <<>>)
         \o NodesDepthFirst(Tail(nodes))

\* The file types of a tree, each once, in the order they are first met
\* depth first: the type of a file is what follows the last dot of its name
\* (the whole name when it has no dot), in lower case; an empty one is none.
TypesMet(tree) ==
    LET walk == NodesDepthFirst(tree)
        types == [i \in 1..Len(walk) |-> extension(walk[i].name)]
        first == {i \in 1..Len(walk) :
                     /\ walk[i].type = "file"
                     /\ Len(types[i]) > 0
                     /\ \A j \in 1..(i - 1) :
                           walk[j].type = "file" => types[j] /= types[i]}
    IN  [k \in 1..Cardinality(first) |->
            types[CHOOSE i \in first : Cardinality({j \in first : j <= i}) = k]]

\* The line of a rendered text that opens with the fixed part.
LineOf(text, fixed) ==
    text[CHOOSE k \in 1..Len(text) : "line" \in DOMAIN text[k] /\ text[k].line = fixed]

\* C25: in the Technical Overview of a rendered text the total of files and
\* the total of directories are the numbers of file nodes and of directory
\* nodes of the whole tree, so that their sum is the number of its nodes at
\* all depths, and the file types listed are pairwise distinct, at most 10,
\* and the first ones met in depth-first order (Mixed when none is met).
C25_TechnicalOverview ==
    \A k \in 1..Len(outcome) :
        (Rendered(k) /\ Len(outcome[k].fileTree) > 0) =>
            LET text == outcome[k].result
                walk == NodesDepthFirst(outcome[k].fileTree)
                files == Cardinality({i \in 1..Len(walk) : walk[i].type = "file"})
                directories == Cardinality({i \in 1..Len(walk) : walk[i].type = "directory"})
                listed == LineOf(text, "- **File Types**: ").types
                met == TypesMet(outcome[k].fileTree)
            IN  /\ LineOf(text, "- **Total Files**: ").text = String(files)
                /\ LineOf(text, "- **Total Directories**: ").text = String(directories)
                /\ files + directories = CountNodes(outcome[k].fileTree)
                /\ Len(listed) <= 10
                /\ Len(met) = 0 => listed = <<"Mixed">>
                /\ Len(met) > 0 =>
                      /\ listed = SubSeq(met, 1, Min(10, Len(met)))
                      /\ \A i, j \in 1..Len(listed) : i /= j => listed[i] /= listed[j]

\* Texts have been rendered for the tree of the tests, whose four files at
\* three depths are of the types ts, json and md.
RenderedTestTree ==
    /\ Len(outcome) = 2
    /\ Rendered(2)
    /\ outcome[2].fileTree = testFileTree
    /\ LineOf(outcome[2].result, "- **File Types**: ").types
           = <<<<"t", "s">>, <<"j", "s", "o", "n">>, <<"m", "d">>>>
    /\ LineOf(outcome[2].result, "- **Total Files**: ").text = <<"4">>
    /\ LineOf(outcome[2].result, "- **Total Directories**: ").text = <<"2">>

\* Texts have been rendered for the tree of 15 files of 15 types, of which
\* ext0 .. ext9 are listed.
C25_Witness ==
    /\ Len(outcome) = 2
    /\ Rendered(2)
    /\ outcome[2].fileTree = manyTypesTree
    /\ Len(LineOf(outcome[2].result, "- **File Types**: ").types) = 10
    /\ LineOf(outcome[2].result, "- **File Types**: ").types[10]
           = <<"e", "x", "t", "9">>
    /\ LineOf(outcome[2].result, "- **Total Files**: ").text = <<"1", "5">>
    /\ LineOf(outcome[2].result, "- **Total Directories**: ").text = <<"0">>

\* C26 (as stated): in every answer of listReadmes, whatever inserts and
\* deletes executed while it ran, the number of records returned is at most
\* max(0, total - offset) for the total of the same answer.  The code reads
\* the page and the count with two statements outside a transaction.
C26_PageWithinTotal ==
    req.pc = "done" =>
        Len(req.result.readmes) <= Max(0, req.result.total - req.result.offset)

\* The same for the answers between whose two queries no row was deleted.
C26_PageWithinTotalUnlessDeleted ==
    (req.pc = "done" /\ req.selectedFrom \subseteq req.countedFrom) =>
        Len(req.result.readmes) <= Max(0, req.result.total - req.result.offset)

\* An answer with a page of records, between whose two queries the table
\* was written.
C26_Witness ==
    /\ req.pc = "done"
    /\ req.selectedFrom /= req.countedFrom
    /\ Len(req.result.readmes) > 0

\* Two calls of deleteReadme for one identifier, stored when each was
\* called, have both answered.
BothDeleted(r1, r2) ==
    /\ r1 /= r2
    /\ req[r1].pc \in {"done", "failed"}
    /\ req[r2].pc \in {"done", "failed"}
    /\ req[r1].id = req[r2].id
    /\ req[r1].stored
    /\ req[r2].stored

\* The rows the statements for an identifier have removed, in all.
RemovedOf(id) ==
    LET statements == SelectSeq(dbLog, LAMBDA s : s.op = "delete" /\ s.id = id)
        total[k \in 0..Len(statements)] ==
            IF k = 0 THEN 0 ELSE total[k - 1] + statements[k].removed
    IN  total[Len(statements)]

\* The calls of deleteReadme for an identifier, and those of them made while
\* its row was stored.
CallsFor(id) == {r \in Requests : "id" \in DOMAIN req[r] /\ req[r].id = id}
CallsForStored(id) == {r \in CallsFor(id) : req[r].stored}

\* C27: when two (or more) deleteReadme calls for an identifier that was
\* stored when they were made have all answered, exactly one call for the
\* identifier has succeeded (one of them, when no other call is for the
\* identifier) and every other one has failed with the not-found error of
\* that identifier; the row is not in the table, and the statements for the
\* identifier have removed one row in all.
C27_OneDeleteSucceeds ==
    \A id \in DeleteIds :
        (/\ Cardinality(CallsForStored(id)) >= 2
         /\ \A r \in CallsForStored(id) : req[r].pc \in {"done", "failed"}) =>
            /\ Cardinality({r \in CallsForStored(id) : req[r].pc = "done"}) <= 1
            /\ CallsFor(id) = CallsForStored(id) =>
                  Cardinality({r \in CallsForStored(id) : req[r].pc = "done"}) = 1
            /\ \A r \in CallsForStored(id) :
                  /\ req[r].pc = "failed" => req[r].result = Thrown(notFound(id))
                  /\ req[r].pc = "done" => req[r].result = Returned([success |-> TRUE])
            /\ ~\E row \in store : row.id = id
            /\ RemovedOf(id) = 1

\* Two calls for an identifier were both made while its row was stored: the
\* statement of the second call executed first, the first call has failed,
\* the second has succeeded, and another row is still stored.
C27_Witness ==
    /\ BothDeleted(1, 2)
    /\ req[1].pc = "failed"
    /\ req[2].pc = "done"
    /\ Len(dbLog) = 2
    /\ dbLog[1].by = 2
    /\ Cardinality(store) = 1

\* The path segments of an upstream request after .../repos/.
RepositoryPath(request) ==
    split(SubSeq(request, Len(api_repos) + 1, Len(request)), "/")

\* C29 (as stated): whenever parseGitHubUrl succeeds the owner and the name
\* it returns are non-empty, so that the repository-info request names a
\* repository: its path is repos/<owner>/<name> with neither empty.  The
\* code returns the empty name for a second segment that is exactly .git.
C29_NamesRepository ==
    \A k \in 1..Len(fetched) :
        LET segments == RepositoryPath(fetched[k])
        IN  /\ Len(segments) = 2
            /\ Len(segments[1]) > 0
            /\ Len(segments[2]) > 0

\* What the code does: the owner is never empty, and the name is empty for
\* the second segment .git only.
C29_OwnerNamed ==
    \A k \in 1..Len(fetched) :
        LET segments == RepositoryPath(fetched[k])
        IN  /\ Len(segments) = 2
            /\ Len(segments[1]) > 0
            /\ Len(segments[2]) = 0 <=> githubUrl = url_o_dot_git

\* https://github.com/o/.git was parsed and the request went out for
\* https://api.github.com/repos/o/ .
C29_Witness ==
    /\ githubUrl = url_o_dot_git
    /\ Len(fetched) > 0
    /\ fetched[1] = api_repos \o <<"o", "/">>

Shown == {req.readmes[k].id : k \in 1..Len(req.readmes)}

Previewed == IF req.selectedReadme = Null THEN {} ELSE {req.selectedReadme.id}

\* C30 (as stated): once a deletion of an identifier has been answered with
\* success, the list does not show the identifier and the preview panel
\* does not show its record, however a pending view request for it and the
\* delete request interleave.  The code clears the preview by the
\* selectedReadme of the render in which the deletion was confirmed, and
\* sets the preview from a view response whenever it arrives.
C30_DeletedNotShown ==
    \A id \in req.deleted : id \notin Shown /\ id \notin Previewed

\* What holds: the list does not show an identifier whose deletion has been
\* answered with success.
C30_DeletedNotListed ==
    \A id \in req.deleted : id \notin Shown

\* The deletion of the first record has been answered with success, no row
\* of it is left in the table, and the preview panel shows the record.
C30_Witness ==
    /\ 1 \in req.deleted
    /\ 1 \in Previewed
    /\ 1 \notin Shown
    /\ ~\E row \in store : row.id = 1
    /\ req.select.pc = "idle"
    /\ req.delete.pc = "idle"

\* The entries of a listing, as a set, and a sequence of the entries of a
\* set that depends on the set only.
EntriesOf(listing) == {listing[i] : i \in 1..Len(listing)}

RECURSIVE Enumerated(_)
Enumerated(entries) ==
    IF entries = {} THEN <<>>
    ELSE LET first == CHOOSE e \in entries : TRUE
         IN  <<first>> \o Enumerated(entries \ {first})

C28_WitnessUpToCeiling ==
    \E k \in Built :
        /\ ListingGiven(k) = <<Blob(src_utils_helper_ts), Tree(src_utils), Tree(src)>>
        /\ CountNodes(outcome[k].result.value) = 3
        /\ Len(outcome[k].result.value) = 1

=============================================================================
